---- MODULE Spec2Model ----
(***************************************************************************)
(* A model of ralphy's task-execution engine: the parallel PRD scheduler   *)
(* (core/prd.ts: runPrd / runParallelTasks), the worktree manager          *)
(* (core/parallel/worktrees.ts) and the task-source adapters               *)
(* (core/tasks/markdown.ts, yaml.ts, github.ts, source.ts), the            *)
(* single-task executor (core/single.ts), the sequential PRD loop and the  *)
(* branch-per-task manager (core/git/branch.ts).                           *)
(***************************************************************************)
EXTENDS Integers, Sequences, FiniteSets, TLC

\* ------------------------------------------------------------------ bounds
MaxTasks == 2
MaxGroups == 2

\* lines of a Markdown document, items of a YAML document, issues of a repository
MaxItems == 2

\* calls made on a task source
MaxOps == 2

\* open tasks a task source hands to one sequential run
MaxRounds == 2

\* JavaScript's undefined for an optional number: an integer no input uses.
Undefined == 0 - 1000
None == "none"

Min(a, b) == IF a < b THEN a ELSE b
Max(a, b) == IF a > b THEN a ELSE b

\* ---------------------------------------------------------------- variables
VARIABLES
  opts,                \* the RunPrdRequest of this run
  parsedTasks,         \* the tasks the source parser yields, in source order
  pc,                  \* position of runPrd / runParallelTasks
  outcome,             \* what runPrd produced: None, a RunPrdResponse, or "thrown"
  groups,              \* parallelTasks.groups
  queue,               \* the shared queue of groups not yet dequeued
  workers,             \* one record per worker() launched by Promise.all
  serialChain,         \* workers whose serial() body is pending, in FIFO order
  results,             \* ParallelGroupResult[], in completion order
  completedBranches,
  integrationBranches,
  baseBranch,          \* the scheduler's current base
  originalBaseBranch,
  branches,            \* git: branch name -> set of parallel branches it contains
  head,                \* git: branch checked out in the main working directory
  created,             \* worktree manager: WorktreeRecord[]
  preserved,           \* worktree paths a preserveDirty cleanup kept as dirty
  cleanups,            \* the running cleanup() calls: "signal" and "final"
  registered,          \* the SIGINT/SIGTERM handler is installed
  handled,             \* registerCleanupSignals' one-shot flag
  firstSignal,         \* the signal whose handler call started the cleanup
  sigCleanupCalls,     \* how often the handler called cleanup()
  exitCode,            \* process.exitCode
  dirtyForceRemoved,   \* a dirty worktree was force-removed after a signal
  direct,              \* mergeBranchesIntoBase's direct loop: position and failed list
  attempted,           \* indexes of the tasks the runner was called for
  merging,             \* git: a merge is in progress in the main working directory
  observed             \* history: dequeues and createWorktree calls per group,
                       \* submissions to serial(), failed promotions, final cleanups,
                       \* tasks whose complete() did not mark them

parVars == << opts, parsedTasks, pc, outcome, groups, queue, workers, serialChain,
              results, completedBranches, integrationBranches, baseBranch,
              originalBaseBranch, branches, head, created, preserved,
              cleanups, registered, handled, firstSignal,
              sigCleanupCalls, exitCode, dirtyForceRemoved, direct, attempted,
              merging, observed >>

\* The task source: which kind it is, the file's contents, the repository's
\* issues, and the last two calls made on it with what they returned.
VARIABLES srcKind, srcContents, srcIssues, srcPrev, srcLast, srcOps

srcVars == << srcKind, srcContents, srcIssues, srcPrev, srcLast, srcOps >>

\* One runSingleTask call: its request, where it stands, its locals, the
\* response it returned, and what the agent runner and the timer were asked.
VARIABLES request, singlePc, attempts, lastError, lastResult, singleResponse,
          invocations, delays

oneVars == << request, singlePc, attempts, lastError, lastResult, singleResponse,
              invocations, delays >>

\* A sequential runPrd: its request, where it stands, its locals, what it will
\* hand back once the outer finally block is through, what it handed back, and
\* the calls it made on its dependencies with what they returned.
VARIABLES seqOpts, seqPc, iterations, completedCount, runTasks, usageTotals,
          seqTask, taskBranch, runnerResult, pending, seqOutcome, calls

seqVars == << seqOpts, seqPc, iterations, completedCount, runTasks, usageTotals,
              seqTask, taskBranch, runnerResult, pending, seqOutcome, calls >>

\* One branch-per-task manager: the base branch it was configured with, where
\* the sequence of calls on it stands, its closure variables, the repository
\* (checked-out branch, branch list, stash stack, dirty working tree), the
\* repository as it was before prepare, and the git commands issued so far.
VARIABLES configuredBase, managerPc, managerBase, originalBranch, stashRef,
          gitHead, gitBranches, gitStash, gitDirty, gitBefore, gitLog

bmVars == << configuredBase, managerPc, managerBase, originalBranch, stashRef,
             gitHead, gitBranches, gitStash, gitDirty, gitBefore, gitLog >>

\* One worktree manager: the records it holds (created), the createWorktree
\* and cleanup calls made on it, and the repository they act on: its branches,
\* its worktrees, and the git commands the manager has issued; the task
\* source the run was started with (options.yaml, options.prd) and the
\* complete() calls made for the groups' tasks.
VARIABLES wtCreated, wtCalls, wtCleanup, wtPasses, wtBranches, wtTrees, wtLog,
          wtSource, wtCompletes

wtVars == << wtCreated, wtCalls, wtCleanup, wtPasses, wtBranches, wtTrees, wtLog,
             wtSource, wtCompletes >>

\* One call of mergeBranchesIntoBase on its direct path (no integration
\* branch): the branches to merge, where the call stands, its loop index and
\* `failed` list, what it returned, the repository (a merge in progress,
\* conflicted files, the branches merged into the base, the branches that
\* exist) and the git commands and agent calls made so far.
VARIABLES mbCompleted, mbPc, mbIdx, mbFailed, mbResult, mbRepo, mbLog

mbVars == << mbCompleted, mbPc, mbIdx, mbFailed, mbResult, mbRepo, mbLog >>

vars == << parVars, srcVars, oneVars, seqVars, bmVars, wtVars, mbVars >>

\* what a parallel run, and what a call on a task source, leaves alone
notParVars == << srcVars, oneVars, seqVars, bmVars, wtVars, mbVars >>
notSrcVars == << parVars, oneVars, seqVars, bmVars, wtVars, mbVars >>
notOneVars == << parVars, srcVars, seqVars, bmVars, wtVars, mbVars >>
notSeqVars == << parVars, srcVars, oneVars, bmVars, wtVars, mbVars >>
notBmVars == << parVars, srcVars, oneVars, seqVars, wtVars, mbVars >>
notWtVars == << parVars, srcVars, oneVars, seqVars, bmVars, mbVars >>
notMbVars == << parVars, srcVars, oneVars, seqVars, bmVars, wtVars >>

\* ------------------------------------------------------- pure helpers (prd)

\* maxParallel is given in halves so that Math.floor has something to do:
\* the value 5 stands for 2.5, the value 4 for 2.
Floor2(h) == h \div 2

resolveMaxParallelAll(value, groupCount) == Max(1, groupCount)

resolveMaxParallel(value, groupCount) ==
  IF value = Undefined
    THEN Max(1, groupCount)
    ELSE Max(1, Min(groupCount, Floor2(value)))

ensureMaxIterations(value) == IF value = Undefined THEN Undefined ELSE Max(0, value)

RECURSIVE GroupFold(_, _)
GroupFold(tasks, acc) ==
  IF tasks = << >> THEN acc
  ELSE LET t == Head(tasks) IN
    IF \E i \in 1..Len(acc) : acc[i].group = t.group
      THEN GroupFold(Tail(tasks),
             [i \in 1..Len(acc) |->
                IF acc[i].group = t.group
                  THEN [acc[i] EXCEPT !.tasks = Append(@, t)]
                  ELSE acc[i]])
      ELSE GroupFold(Tail(tasks), Append(acc, [group |-> t.group, tasks |-> << t >>]))

groupParallelTasksSplit(tasks) ==
  [i \in 1..Len(tasks) |-> [group |-> tasks[i].group, tasks |-> << tasks[i] >>]]

groupParallelTasks(tasks) == GroupFold(tasks, << >>)

githubSourceNot(o) == FALSE

\* if (options.github)
githubSource(o) == o.github

\* loadParallelTasks: filter completed, truncate to the limit, number from 0.
loadParallelTasks(o, parsed) ==
  IF githubSource(o) THEN [status |-> "error"]
  ELSE
    LET open == SelectSeq(parsed, LAMBDA t : ~t.completed)
        limit == ensureMaxIterations(o.maxIterations)
        limited == IF limit = Undefined THEN open
                   ELSE SubSeq(open, 1, Min(limit, Len(open)))
        tasks == [i \in 1..Len(limited) |->
                    [group |-> IF o.source = "yaml" THEN limited[i].group ELSE 0,
                     index |-> i - 1]]
    IN IF Len(tasks) = 0
         THEN [status |-> "empty"]
         ELSE [status |-> "ok", groups |-> groupParallelTasks(tasks),
               truncated |-> Len(limited) < Len(open)]

\* ensureUniqueBranchName: the base name, else the first free suffix -2, -3, ...
\* A name is [kind, slug, n]; n = 1 is the base name without suffix.
ensureUniqueBranchName(kind, slug, existing) ==
  LET n == CHOOSE k \in 1..(Cardinality(existing) + 1) :
             /\ [kind |-> kind, slug |-> slug, n |-> k] \notin existing
             /\ \A j \in 1..(k - 1) : [kind |-> kind, slug |-> slug, n |-> j] \in existing
  IN [kind |-> kind, slug |-> slug, n |-> n]

MainBranch == [kind |-> "main", slug |-> 0, n |-> 1]

NoBranch == [kind |-> None, slug |-> 0, n |-> 0]

ExitCodeFor(signal) == IF signal = "SIGINT" THEN 130 ELSE 143

HandlerRunsAlways(flag) == TRUE

HandlerRuns(flag) == ~flag

\* ------------------------------------------------- text (task sources)
\* A text is a sequence of characters.  A word of letters or digits that the
\* parsers only ever treat as a unit ("title", "true", "A") is one element.
SP == " "
TAB == "\t"
CR == "\r"
LF == "\n"

Punctuation == {SP, TAB, CR, LF, "-", "*", "[", "]", ":", "#", "\"", "'"}

\* [\t ]
Blank == {SP, TAB}

\* \s
Ws == {SP, TAB, CR, LF}

MinOf(S) == CHOOSE i \in S : \A j \in S : i <= j

\* Length of the longest prefix of s whose elements are all in S.
LeadIn(s, S) ==
  IF \A i \in 1..Len(s) : s[i] \in S THEN Len(s)
  ELSE MinOf({i \in 1..Len(s) : s[i] \notin S}) - 1

\* Length of the longest prefix of s with no element in S.
LeadOut(s, S) ==
  IF \A i \in 1..Len(s) : s[i] \notin S THEN Len(s)
  ELSE MinOf({i \in 1..Len(s) : s[i] \in S}) - 1

From(s, i) == SubSeq(s, i, Len(s))

TrimStart(s) == From(s, LeadIn(s, Ws) + 1)

RECURSIVE TrimEnd(_)
TrimEnd(s) ==
  IF s = << >> THEN s
  ELSE IF s[Len(s)] \in Ws THEN TrimEnd(SubSeq(s, 1, Len(s) - 1))
  ELSE s

Trim(s) == TrimEnd(TrimStart(s))

\* "." matches every character but a line terminator
AllDot(s) == \A i \in 1..Len(s) : s[i] \notin {CR, LF}

toLowerCase(c) ==
  CASE c = "X" -> "x"
    [] c = "True" -> "true"
    [] c = "TRUE" -> "true"
    [] c = "False" -> "false"
    [] OTHER -> c

Lower(s) == [i \in 1..Len(s) |-> toLowerCase(s[i])]

\* [^a-z0-9]+ -> "-"
RECURSIVE Dashed(_)
Dashed(s) ==
  IF s = << >> THEN s
  ELSE IF s[1] \in Punctuation
    THEN << "-" >> \o Dashed(From(s, LeadIn(s, Punctuation) + 1))
  ELSE << s[1] >> \o Dashed(Tail(s))

RECURSIVE DashEnd(_)
DashEnd(s) ==
  IF s = << >> THEN s
  ELSE IF s[Len(s)] = "-" THEN DashEnd(SubSeq(s, 1, Len(s) - 1))
  ELSE s

DefaultSlugLength == 48

slugifyTask(task, maxLength) ==
  LET cleaned == Dashed(Lower(task))
      trimmed == DashEnd(From(cleaned, LeadIn(cleaned, {"-"}) + 1))
      base == IF Len(trimmed) > 0 THEN trimmed ELSE << "task" >>
      clipped == SubSeq(base, 1, Min(maxLength, Len(base)))
  IN DashEnd(clipped)

\* String(task.parallelGroup)
GroupText(group) ==
  IF group < 0 THEN << "-", ToString(0 - group) >> ELSE << ToString(group) >>

\* String(value).trim() || "group"
normalizeGroup(text) == IF Trim(text) = << >> THEN << "group" >> ELSE Trim(text)

\* `ralphy/parallel/${slug}`
buildBranchName(group, existing) ==
  ensureUniqueBranchName("parallel", slugifyTask(group, DefaultSlugLength), existing)

\* `ralphy/integration-group-${slug}`
buildIntegrationBranchName(group, existing) ==
  ensureUniqueBranchName("integration", slugifyTask(group, DefaultSlugLength), existing)

Has(s, ch) == \E i \in 1..Len(s) : s[i] = ch

FirstOf(s, ch) == MinOf({i \in 1..Len(s) : s[i] = ch})

\* The last index of the line that ends at the "\n" at i: \r?\n
LineEnd(c, i) == IF i > 1 /\ c[IF i > 1 THEN i - 1 ELSE 1] = CR THEN i - 2 ELSE i - 1

RECURSIVE SplitLines(_)
SplitAt(c, i) == << SubSeq(c, 1, LineEnd(c, i)) >> \o SplitLines(From(c, i + 1))

\* contents.split(/\r?\n/)
SplitLines(c) == IF Has(c, LF) THEN SplitAt(c, FirstOf(c, LF)) ELSE << c >>

\* lines.join("\n")
RECURSIVE JoinLines(_)
JoinLines(lines) ==
  IF Len(lines) = 0 THEN << >>
  ELSE IF Len(lines) = 1 THEN lines[1]
  ELSE lines[1] \o << LF >> \o JoinLines(Tail(lines))

\* --------------------------------------------------- tasks/markdown.ts
NoMdMatch == [ok |-> FALSE, prefix |-> << >>, status |-> SP, text |-> << >>]

\* ... [\t ]+(.*)$ : c blanks after the "]" at a + b + 4, then the text
MdText(line, a, b, c) ==
  IF c = 0 THEN NoMdMatch
  ELSE IF ~AllDot(From(line, a + b + 5 + c)) THEN NoMdMatch
  ELSE [ok |-> TRUE, prefix |-> SubSeq(line, 1, a + 1 + b), status |-> line[a + b + 3],
        text |-> From(line, a + b + 5 + c)]

\* ... [\t ]+)\[([ xX])\] : b blanks after the marker at a + 1, then the box
MdBox(line, a, b) ==
  IF b = 0 \/ Len(line) < a + b + 4 THEN NoMdMatch
  ELSE IF line[a + b + 2] # "[" \/ line[a + b + 3] \notin {SP, "x", "X"}
             \/ line[a + b + 4] # "]" THEN NoMdMatch
  ELSE MdText(line, a, b, LeadIn(From(line, a + b + 5), Blank))

\* ^([\t ]*[-*] : a blanks, then the list marker
MdMarker(line, a) ==
  IF Len(line) < a + 1 THEN NoMdMatch
  ELSE IF line[a + 1] \notin {"-", "*"} THEN NoMdMatch
  ELSE MdBox(line, a, LeadIn(From(line, a + 2), Blank))

\* taskLinePattern = /^([\t ]*[-*][\t ]+)\[([ xX])\][\t ]+(.*)$/
taskLinePattern(line) == MdMarker(line, LeadIn(line, Blank))

normalizeTaskText(value) == Trim(value)

MarkdownTask(m, line) ==
  [text |-> normalizeTaskText(m.text), completed |-> toLowerCase(m.status) = "x",
   line |-> line]

MarkdownTasksAt(lines, hits) ==
  [k \in 1..Len(hits) |-> MarkdownTask(taskLinePattern(lines[hits[k]]), hits[k])]

MarkdownTasksOf(lines) ==
  MarkdownTasksAt(lines, SelectSeq([i \in 1..Len(lines) |-> i],
                                   LAMBDA i : taskLinePattern(lines[i]).ok))

\* parseMarkdownTasks: the checkbox lines in source order, lines numbered from 1.
parseMarkdownTasks(contents) == MarkdownTasksOf(SplitLines(contents))

MdMatches(m, normalizedTarget) == m.ok /\ normalizeTaskText(m.text) = normalizedTarget

MdRewrite(contents, lines, index, m) ==
  IF toLowerCase(m.status) = "x"
    THEN [status |-> "already-complete", ref |-> index, updated |-> contents]
    ELSE [status |-> "updated", ref |-> index,
          updated |-> JoinLines([lines EXCEPT
                         ![index] = m.prefix \o << "[", "x", "]", SP >> \o m.text])]

MdComplete(contents, lines, index) ==
  MdRewrite(contents, lines, index, taskLinePattern(lines[index]))

MdFind(contents, lines, normalizedTarget) ==
  IF \A i \in 1..Len(lines) : ~MdMatches(taskLinePattern(lines[i]), normalizedTarget)
    THEN [status |-> "not-found", ref |-> 0, updated |-> contents]
    ELSE MdComplete(contents, lines,
           MinOf({i \in 1..Len(lines) :
                    MdMatches(taskLinePattern(lines[i]), normalizedTarget)}))

\* ref is the line of the task the call matched (index + 1 in the code).
completeMarkdownTask(contents, taskText) ==
  MdFind(contents, SplitLines(contents), normalizeTaskText(taskText))

\* ------------------------------------------------------- tasks/yaml.ts
normalizeTaskTitle(value) == Trim(value)

IsQuoted(t, q) == t # << >> /\ t[1] = q /\ t[IF t = << >> THEN 1 ELSE Len(t)] = q

\* trimmed.slice(1, -1) when the trimmed value starts and ends with one quote
Unquote(trimmed) ==
  IF IsQuoted(trimmed, "\"") \/ IsQuoted(trimmed, "'")
    THEN SubSeq(trimmed, 2, Len(trimmed) - 1)
    ELSE trimmed

parseYamlValue(value) == Unquote(Trim(value))

parseBoolean(value) == Lower(parseYamlValue(value)) = << "true" >>

Digits == {"0", "1", "2", "3"}

DigitValue(c) == CASE c = "0" -> 0 [] c = "1" -> 1 [] c = "2" -> 2 [] OTHER -> 3

RECURSIVE DecimalValue(_)
DecimalValue(ds) ==
  IF ds = << >> THEN 0
  ELSE 10 * DecimalValue(SubSeq(ds, 1, Len(ds) - 1)) + DigitValue(ds[Len(ds)])

LeadingDigits(body) == DecimalValue(SubSeq(body, 1, LeadIn(body, Digits)))

ParseInt(v) ==
  IF v = << >> THEN 0
  ELSE IF v[1] = "-" THEN 0 - LeadingDigits(Tail(v))
  ELSE LeadingDigits(v)

\* Number.parseInt(parseYamlValue(value), 10), NaN read as 0
parseNumber(value) == ParseInt(TrimStart(parseYamlValue(value)))

HeaderAt(line, a) ==
  /\ Len(line) >= a + 2
  /\ line[a + 1] = "tasks"
  /\ line[a + 2] = ":"
  /\ LeadIn(From(line, a + 3), Ws) = Len(line) - a - 2

\* tasksHeaderPattern = /^(\s*)tasks:\s*$/
tasksHeaderPattern(line) == HeaderAt(line, LeadIn(line, Ws))

ItemAt(line, a) ==
  /\ Len(line) >= a + 2
  /\ line[a + 1] = "-"
  /\ line[a + 2] \in Ws
  /\ AllDot(TrimStart(From(line, a + 2)))

\* /^(\s*)-\s+(.+)?$/
IsItemLine(line) == ItemAt(line, LeadIn(line, Ws))

NoBlock == [startIndex |-> 0, lines |-> << >>, itemIndent |-> << >>]

Push(blocks, current) == IF current # NoBlock THEN Append(blocks, current) ELSE blocks

\* The loop of extractTaskBlocks from line i on.  Lines are indexed from 1
\* here, so startIndex is the 1-based index of the item line.
RECURSIVE BlockScan(_, _, _, _, _)
BlockStep(lines, i, tasksIndentLength, current, blocks, indentLength) ==
  IF Trim(lines[i]) # << >> /\ indentLength <= tasksIndentLength
    THEN Push(blocks, current)
  ELSE IF IsItemLine(lines[i]) /\ indentLength > tasksIndentLength
    THEN BlockScan(lines, i + 1, tasksIndentLength,
                   [startIndex |-> i, lines |-> << lines[i] >>,
                    itemIndent |-> SubSeq(lines[i], 1, indentLength)],
                   Push(blocks, current))
  ELSE IF current # NoBlock
    THEN BlockScan(lines, i + 1, tasksIndentLength,
                   [current EXCEPT !.lines = Append(@, lines[i])], blocks)
  ELSE BlockScan(lines, i + 1, tasksIndentLength, current, blocks)

BlockScan(lines, i, tasksIndentLength, current, blocks) ==
  IF i > Len(lines) THEN Push(blocks, current)
  ELSE BlockStep(lines, i, tasksIndentLength, current, blocks, LeadIn(lines[i], Ws))

BlocksAfter(lines, headerIndex) ==
  BlockScan(lines, headerIndex + 1, LeadIn(lines[headerIndex], Ws), NoBlock, << >>)

BlocksOf(lines) ==
  IF \A i \in 1..Len(lines) : ~tasksHeaderPattern(lines[i]) THEN << >>
  ELSE BlocksAfter(lines, MinOf({i \in 1..Len(lines) : tasksHeaderPattern(lines[i])}))

extractTaskBlocks(contents) == BlocksOf(SplitLines(contents))

NoKey == [ok |-> FALSE, key |-> << >>, value |-> << >>]

KeyValueOf(key, value) ==
  IF AllDot(value) THEN [ok |-> TRUE, key |-> key, value |-> value] ELSE NoKey

\* ... \s*:\s*(.*)$ : the key is the first a elements, the colon stands at p
ColonAt(content, a, p) ==
  IF p > Len(content) THEN NoKey
  ELSE IF content[p] # ":" THEN NoKey
  ELSE KeyValueOf(SubSeq(content, 1, a), TrimStart(From(content, p + 1)))

KeyAt(content, a) ==
  IF a = 0 THEN NoKey
  ELSE ColonAt(content, a, a + LeadIn(From(content, a + 1), Ws) + 1)

\* /^([a-zA-Z0-9_]+)\s*:\s*(.*)$/
KeyValue(content) == KeyAt(content, LeadOut(content, Punctuation))

DotOrEmpty(c) == IF AllDot(c) THEN c ELSE << >>

DashContent(r) ==
  IF r = << >> THEN << >>
  ELSE IF r[1] # "-" THEN << >>
  ELSE DotOrEmpty(TrimStart(Tail(r)))

\* line.match(/^\s*-\s*(.*)$/)?.[1] ?? ""
ItemContent(line) == DashContent(TrimStart(line))

Assign(acc, index, m) ==
  IF m.key = << "title" >>
    THEN [acc EXCEPT !.title = parseYamlValue(m.value), !.titleLineOffset = index]
  ELSE IF m.key = << "completed" >>
    THEN [acc EXCEPT !.completed = parseBoolean(m.value), !.completedLineOffset = index]
  ELSE IF m.key = << "parallel_group" >>
    THEN [acc EXCEPT !.parallelGroup = parseNumber(m.value)]
  ELSE acc

Property(acc, line, index, m) ==
  IF ~m.ok THEN acc
  ELSE IF index > 0
    THEN Assign([acc EXCEPT !.propertyIndent = SubSeq(line, 1, LeadIn(line, Ws))], index, m)
  ELSE Assign(acc, index, m)

Skipped(trimmed) == IF trimmed = << >> THEN TRUE ELSE trimmed[1] = "#"

\* The body of the forEach in parseTaskBlock for the line at 0-based index.
BlockLine(acc, line, index) ==
  IF Skipped(Trim(line)) THEN acc
  ELSE IF index = 0 THEN Property(acc, line, index, KeyValue(ItemContent(line)))
  ELSE Property(acc, line, index, KeyValue(TrimStart(line)))

RECURSIVE BlockFold(_, _, _)
BlockFold(acc, lines, k) ==
  IF k > Len(lines) THEN acc
  ELSE BlockFold(BlockLine(acc, lines[k], k - 1), lines, k + 1)

\* null offsets are Undefined
parseTaskBlock(block) ==
  BlockFold([title |-> << >>, completed |-> FALSE, parallelGroup |-> 0,
             completedLineOffset |-> Undefined, titleLineOffset |-> Undefined,
             propertyIndent |-> block.itemIndent \o << SP, SP >>],
            block.lines, 1)

YamlTask(parsed, line) ==
  [title |-> normalizeTaskTitle(parsed.title), completed |-> parsed.completed,
   parallelGroup |-> parsed.parallelGroup, line |-> line]

YamlTasksOf(blocks) ==
  [k \in 1..Len(blocks) |-> YamlTask(parseTaskBlock(blocks[k]), blocks[k].startIndex)]

parseYamlTasks(contents) ==
  SelectSeq(YamlTasksOf(extractTaskBlocks(contents)), LAMBDA task : Len(task.title) > 0)

NoRewrite == [ok |-> FALSE, line |-> << >>]

RewriteRest(kept, rest) ==
  IF AllDot(rest) THEN [ok |-> TRUE, line |-> kept \o << "true" >> \o rest] ELSE NoRewrite

\* ([^#]*)(.*)$ after match[1], which ends at q
RewriteValue(line, q) ==
  RewriteRest(SubSeq(line, 1, q), From(line, q + LeadOut(From(line, q + 1), {"#"}) + 1))

RewriteColon(line, p) ==
  IF p > Len(line) THEN NoRewrite
  ELSE IF line[p] # ":" THEN NoRewrite
  ELSE RewriteValue(line, p + LeadIn(From(line, p + 1), Ws))

RewriteKey(line, a) ==
  IF Len(line) < a + 1 THEN NoRewrite
  ELSE IF line[a + 1] # "completed" THEN NoRewrite
  ELSE RewriteColon(line, a + 1 + LeadIn(From(line, a + 2), Ws) + 1)

\* currentLine.match(/^(\s*completed\s*:\s*)([^#]*)(.*)$/) and the line
\* `${match[1]}true${match[3]}` built from it
RewriteCompleted(currentLine) == RewriteKey(currentLine, LeadIn(currentLine, Ws))

CompletedTrueLine(propertyIndent) == propertyIndent \o << "completed", ":", SP, "true" >>

\* lines.splice(at, 0, line) with a 1-based position of the new line
InsertLine(lines, at, line) ==
  SubSeq(lines, 1, at - 1) \o << line >> \o From(lines, at)

SetCompletedLine(lines, lineIndex, m, propertyIndent) ==
  [lines EXCEPT ![lineIndex] = IF m.ok THEN m.line ELSE CompletedTrueLine(propertyIndent)]

YamlUpdated(block, lines) ==
  [status |-> "updated", ref |-> block.startIndex, updated |-> JoinLines(lines)]

OrZero(offset) == IF offset # Undefined THEN offset ELSE 0

YamlRewrite(contents, lines, block, parsed) ==
  IF parsed.completed
    THEN [status |-> "already-complete", ref |-> block.startIndex, updated |-> contents]
  ELSE IF parsed.completedLineOffset # Undefined
    THEN YamlUpdated(block,
           SetCompletedLine(lines, block.startIndex + parsed.completedLineOffset,
                            RewriteCompleted(lines[block.startIndex + parsed.completedLineOffset]),
                            parsed.propertyIndent))
  ELSE YamlUpdated(block,
         InsertLine(lines, block.startIndex + OrZero(parsed.titleLineOffset) + 1,
                    CompletedTrueLine(parsed.propertyIndent)))

YamlComplete(contents, lines, block) ==
  YamlRewrite(contents, lines, block, parseTaskBlock(block))

YamlMatches(block, normalizedTarget) ==
  normalizeTaskTitle(parseTaskBlock(block).title) = normalizedTarget

YamlFind(contents, lines, blocks, normalizedTarget) ==
  IF \A k \in 1..Len(blocks) : ~YamlMatches(blocks[k], normalizedTarget)
    THEN [status |-> "not-found", ref |-> 0, updated |-> contents]
    ELSE YamlComplete(contents, lines,
           blocks[MinOf({k \in 1..Len(blocks) : YamlMatches(blocks[k], normalizedTarget)})])

\* ref is the line of the item the call matched (block.startIndex + 1).
completeYamlTask(contents, taskTitle) ==
  YamlFind(contents, SplitLines(contents), extractTaskBlocks(contents),
           normalizeTaskTitle(taskTitle))

\* ----------------------------------------------------- tasks/github.ts
\* gh issue list --state open|all: the repository's issues, newest first
GhIssueList(issues, state) ==
  SelectSeq(issues, LAMBDA issue : state = "all" \/ issue.state = "OPEN")

GithubTasksOf(listed) ==
  [k \in 1..Len(listed) |->
     [number |-> listed[k].number, title |-> normalizeTaskTitle(listed[k].title)]]

listGithubTasks(issues) == GithubTasksOf(GhIssueList(issues, "open"))

\* gh issue view <number>
GhIssueView(issues, number) ==
  CHOOSE issue \in {issues[k] : k \in 1..Len(issues)} : issue.number = number

\* gh issue close <number>
GhIssueClose(issues, number) ==
  [k \in 1..Len(issues) |->
     IF issues[k].number = number THEN [issues[k] EXCEPT !.state = "CLOSED"] ELSE issues[k]]

GithubClose(issues, view) ==
  IF view.state = "CLOSED"
    THEN [status |-> "already-complete", ref |-> view.number, issues |-> issues]
    ELSE [status |-> "updated", ref |-> view.number,
          issues |-> GhIssueClose(issues, view.number)]

GithubFind(issues, listed, normalizedTarget) ==
  IF \A k \in 1..Len(listed) : normalizeTaskTitle(listed[k].title) # normalizedTarget
    THEN [status |-> "not-found", ref |-> 0, issues |-> issues]
    ELSE GithubClose(issues,
           GhIssueView(issues,
             listed[MinOf({k \in 1..Len(listed) :
                             normalizeTaskTitle(listed[k].title) = normalizedTarget})].number))

completeGithubTask(issues, taskTitle) ==
  GithubFind(issues, GhIssueList(issues, "all"), normalizeTaskTitle(taskTitle))

\* ----------------------------------------------------- tasks/source.ts
Undone(tasks) == SelectSeq(tasks, LAMBDA task : ~task.completed)

NextResult(status, text, ref) == [status |-> status, text |-> text, ref |-> ref]

FirstGithub(tasks) ==
  IF tasks = << >> THEN NextResult("empty", << >>, 0)
  ELSE NextResult("ok", tasks[1].title, tasks[1].number)

FirstYaml(tasks) ==
  IF tasks = << >> THEN NextResult("empty", << >>, 0)
  ELSE NextResult("ok", tasks[1].title, tasks[1].line)

FirstMarkdown(tasks) ==
  IF tasks = << >> THEN NextResult("empty", << >>, 0)
  ELSE NextResult("ok", tasks[1].text, tasks[1].line)

getNextTask ==
  IF srcKind = "github" THEN FirstGithub(listGithubTasks(srcIssues))
  ELSE IF srcContents = << >> THEN NextResult("error", << >>, 0)
  ELSE IF srcKind = "yaml" THEN FirstYaml(Undone(parseYamlTasks(srcContents)))
  ELSE FirstMarkdown(Undone(parseMarkdownTasks(srcContents)))

CompleteResult(status, ref, contents, issues) ==
  [status |-> status, ref |-> ref, contents |-> contents, issues |-> issues]

\* Bun.write(source.path, result.updated) only when the status is "updated"
Written(result) ==
  CompleteResult(result.status, result.ref,
                 IF result.status = "updated" THEN result.updated ELSE srcContents,
                 srcIssues)

Closed(result) == CompleteResult(result.status, result.ref, srcContents, result.issues)

\* contents and issues are the source as the call leaves it.
completeTask(task) ==
  IF srcKind = "github" THEN Closed(completeGithubTask(srcIssues, task))
  ELSE IF srcContents = << >> THEN CompleteResult("error", 0, srcContents, srcIssues)
  ELSE IF srcKind = "yaml" THEN Written(completeYamlTask(srcContents, task))
  ELSE Written(completeMarkdownTask(srcContents, task))


\* ============================================================== single.ts
\* An agent's stdout is kept as the events parseJsonLines decodes from it; a
\* string is a sequence of characters and the empty one stands for a missing
\* (undefined) string as well, both being falsy.
NoText == << >>

\* maxRetries and maxIterations are numbers the caller passes unchecked; they
\* are kept in halves (5 is 2.5) and an integer count n is the value 2 * n.
Whole(n) == 2 * n

Below(count, halves) == Whole(count) < halves

\* readErrorMessage: event.error.message, else event.message, else undefined
readErrorMessage(event) ==
  IF event.errorMessage # NoText THEN event.errorMessage
  ELSE IF event.message # NoText THEN event.message
  ELSE NoText

AgentError == << "Agent error" >>

OrAgentError(message) == IF message = NoText THEN AgentError ELSE message

NoParsedError(response) == [response |-> response, error |-> NoText]

\* parseOpenCodeOutput: the part.text of the text events, joined and trimmed
RECURSIVE TextParts(_)
TextParts(events) ==
  IF events = << >> THEN << >>
  ELSE (IF Head(events).type = "text" THEN Head(events).text ELSE << >>)
         \o TextParts(Tail(events))

parseOpenCodeOutput(events) == NoParsedError(Trim(TextParts(events)))

\* parseStreamJsonResult: the last non-empty result of a result event, trimmed
RECURSIVE LastResponse(_, _)
LastResponse(events, found) ==
  IF events = << >> THEN found
  ELSE LastResponse(Tail(events),
                    IF Head(events).type = "result" /\ Head(events).result # NoText
                      THEN Head(events).result ELSE found)

parseStreamJsonResult(events) == NoParsedError(Trim(LastResponse(events, NoText)))

ErrorEvents(events) == SelectSeq(events, LAMBDA e : e.type = "error")

ParsedError(errors) ==
  [response |-> NoText, error |-> OrAgentError(readErrorMessage(Head(errors)))]

\* parseAgentOutput: the first error event wins over everything else
parseAgentOutput(engine, events) ==
  IF ErrorEvents(events) # << >> THEN ParsedError(ErrorEvents(events))
  ELSE IF engine = "opencode" THEN parseOpenCodeOutput(events)
  ELSE parseStreamJsonResult(events)

ensureEngine(engine) == IF engine = None THEN "claude" ELSE engine

DefaultMaxRetries == 3

DefaultRetryDelay == 5

OrDefault(value, default) == IF value = Undefined THEN default ELSE value

\* delay(seconds): the seconds the timer is set to
delay(seconds) == Max(0, seconds)

ExitedWithCode(code) == << "Agent exited with code ", ToString(code) >>

EmptyFromAgent == << "Empty response from agent" >>

TaskFailed == << "Task failed" >>

AttemptErrorExitFirst(parsed, code) ==
  IF code # 0 THEN ExitedWithCode(code)
  ELSE IF parsed.error # NoText THEN parsed.error
  ELSE IF parsed.response = NoText THEN EmptyFromAgent
  ELSE NoText

\* What an attempt records as lastError; nothing for the attempt that returns.
AttemptError(parsed, code) ==
  IF parsed.error # NoText THEN parsed.error
  ELSE IF code # 0 THEN ExitedWithCode(code)
  ELSE IF parsed.response = NoText THEN EmptyFromAgent
  ELSE NoText

\* the locals of runSingleTask that come from its options
maxRetries == OrDefault(request.maxRetries, Whole(DefaultMaxRetries))

retryDelay == OrDefault(request.retryDelay, DefaultRetryDelay)

NoResult == [stdout |-> << >>, stderr |-> NoText, exitCode |-> 1]

NoResponse == [status |-> None]

DryRunResponse(engine) == [status |-> "dry-run", engine |-> engine]

OkResponse(engine, count, parsed, result) ==
  [status |-> "ok", engine |-> engine, attempts |-> count,
   response |-> parsed.response, stdout |-> result.stdout,
   stderr |-> result.stderr, exitCode |-> result.exitCode]

FirstOutput(result) == IF invocations = << >> THEN result ELSE invocations[1].output

ErrorResponseFirst(engine, count, error, result) ==
  [status |-> "error", engine |-> engine, attempts |-> count,
   error |-> IF error = NoText THEN TaskFailed ELSE error,
   stdout |-> FirstOutput(result).stdout, stderr |-> FirstOutput(result).stderr,
   exitCode |-> FirstOutput(result).exitCode]

ErrorResponse(engine, count, error, result) ==
  [status |-> "error", engine |-> engine, attempts |-> count,
   error |-> IF error = NoText THEN TaskFailed ELSE error,
   stdout |-> result.stdout, stderr |-> result.stderr, exitCode |-> result.exitCode]

\* No runSingleTask call is followed.
OneIdle ==
  /\ request = [engine |-> None, maxRetries |-> Undefined, retryDelay |-> Undefined,
                dryRun |-> FALSE]
  /\ singlePc = "idle"
  /\ attempts = 0
  /\ lastError = NoText
  /\ lastResult = NoResult
  /\ singleResponse = NoResponse
  /\ invocations = << >>
  /\ delays = << >>


\* ==================================================== prd.ts, sequential
\* An AgentUsage; cost and durationMs are Undefined when absent.  Costs are
\* counted in whole units.
AgentUsage(input, output, cost, durationMs) ==
  [inputTokens |-> input, outputTokens |-> output, cost |-> cost,
   durationMs |-> durationMs]

createUsageTotals == AgentUsage(0, 0, Undefined, Undefined)

\* totals.field = (totals.field ?? 0) + usage.field, when usage reports it
AddOptionalAlways(total, reported) ==
  (IF total = Undefined THEN 0 ELSE total) + (IF reported = Undefined THEN 0 ELSE reported)

AddOptional(total, reported) ==
  IF reported = Undefined THEN total
  ELSE (IF total = Undefined THEN 0 ELSE total) + reported

addUsageTotalsLast(totals, usage) == usage

addUsageTotals(totals, usage) ==
  AgentUsage(totals.inputTokens + usage.inputTokens,
             totals.outputTokens + usage.outputTokens,
             AddOptional(totals.cost, usage.cost),
             AddOptional(totals.durationMs, usage.durationMs))

buildSuccessTask(task, source, count, text) ==
  [task |-> task, source |-> source, status |-> "completed", attempts |-> count,
   response |-> text, error |-> NoText]

buildFailureTaskCompleted(task, source, count, error) ==
  [task |-> task, source |-> source, status |-> "completed", attempts |-> count,
   response |-> NoText, error |-> error]

buildFailureTask(task, source, count, error) ==
  [task |-> task, source |-> source, status |-> "failed", attempts |-> count,
   response |-> NoText, error |-> error]

\* the local maxIterations of runPrd, and its loop conditions
maxIterations == ensureMaxIterations(seqOpts.maxIterations)

NoLimit == maxIterations = Undefined

LimitReached == ~NoLimit /\ ~Below(iterations, maxIterations)

DryRunNotSupported == << "Dry run not supported for PRD execution" >>

TaskNotFound == << "Task not found in source" >>

NoRunnerResult == [status |-> None]

Thrown == [status |-> "thrown"]

\* A RunPrdResponse of the sequential loop, from the locals as they are.
OkStopped(stopped, count, done, records, totals) ==
  [status |-> "ok", stage |-> None, message |-> NoText, task |-> NoText,
   failures |-> FALSE, stopped |-> stopped, iterations |-> count,
   completed |-> done, tasks |-> records, usage |-> totals]

StageErrorAgent(stage, message, task, count, records, totals) ==
  [status |-> "error", stage |-> "agent", message |-> message, task |-> task,
   failures |-> FALSE, stopped |-> None, iterations |-> count,
   completed |-> 0, tasks |-> records, usage |-> totals]

StageError(stage, message, task, count, records, totals) ==
  [status |-> "error", stage |-> stage, message |-> message, task |-> task,
   failures |-> FALSE, stopped |-> None, iterations |-> count,
   completed |-> 0, tasks |-> records, usage |-> totals]

RequirementsFailure ==
  [status |-> "error", stage |-> None, message |-> NoText, task |-> NoText,
   failures |-> TRUE, stopped |-> None, iterations |-> 0,
   completed |-> 0, tasks |-> << >>, usage |-> createUsageTotals]

\* the locals of a runPrd call that has not begun
SeqLocals ==
  /\ iterations = 0
  /\ completedCount = 0
  /\ runTasks = << >>
  /\ usageTotals = createUsageTotals
  /\ seqTask = NoText
  /\ taskBranch = None
  /\ runnerResult = NoRunnerResult
  /\ pending = [status |-> None]
  /\ seqOutcome = [status |-> None]
  /\ calls = << >>

\* No sequential runPrd is followed.
SeqIdle ==
  /\ seqOpts = [maxIterations |-> Undefined, branchPerTask |-> FALSE,
                createPr |-> FALSE, draftPr |-> FALSE]
  /\ seqPc = "idle"
  /\ SeqLocals

\* ------------------------------------------- branch manager (part_001)
\* A branch named by a text: its first word is the name.
Named(text) == [kind |-> text[1], slug |-> 0, n |-> 1]

DevBranch == Named(<< "dev" >>)

\* An optional text option: whether it was given, and its text.
Given(text) == [given |-> TRUE, text |-> text]

NotGiven == [given |-> FALSE, text |-> NoText]

\* options.baseBranch?.trim()
TrimmedBase(configured) == [configured EXCEPT !.text = Trim(@)]

\* baseBranch && baseBranch.length > 0 ? baseBranch : originalBranch
BaseOrOriginal(base, original) ==
  IF base.given /\ Len(base.text) > 0 THEN Named(base.text) ELSE original

\* git stash list --format=%gd -n 1: stash@{0} when the stack is not empty
TopStashRef(stash) == IF Len(stash) > 0 THEN 1 ELSE Undefined

\* git stash pop <ref>
Popped(stash, ref) == SubSeq(stash, 1, ref - 1) \o From(stash, ref + 1)

NeedsCheckoutNever(original, base) == FALSE

\* originalBranch && baseBranch && originalBranch !== baseBranch
NeedsCheckout(original, base) ==
  original # NoBranch /\ base # NoBranch /\ original # base

Git(by, cmd, arg) == [by |-> by, cmd |-> cmd, arg |-> arg]

StashMessage == "ralphy: branch-per-task"

\* The closure variables of a manager just created from the text configured.
\* baseBranch is a branch from prepare on; until then the trimmed text is
\* configuredBase's.
ManagerCreated(configured) ==
  /\ configuredBase = configured
  /\ managerBase = NoBranch
  /\ originalBranch = NoBranch
  /\ stashRef = Undefined
  /\ gitLog = << >>

\* No branch manager is followed.
BmIdle ==
  /\ managerPc = "idle"
  /\ ManagerCreated(NotGiven)
  /\ gitHead = MainBranch
  /\ gitBranches = {MainBranch}
  /\ gitStash = << >>
  /\ gitDirty = FALSE
  /\ gitBefore = [head |-> MainBranch, stash |-> << >>, dirty |-> FALSE]

NoCleanup == [active |-> FALSE]

\* an option that holds no path (undefined, or the empty string)
NoPath == [abs |-> FALSE, segs |-> << >>]

\* options.yaml and options.prd of a run started without either
DefaultSource == [yaml |-> NoPath, prd |-> NoPath]

\* createWorktreeManager: no record, no call
WtIdle ==
  /\ wtCreated = << >>
  /\ wtCalls = << >>
  /\ wtCleanup = NoCleanup
  /\ wtPasses = << >>
  /\ wtBranches = {MainBranch}
  /\ wtTrees = {}
  /\ wtLog = << >>
  /\ wtSource = DefaultSource
  /\ wtCompletes = << >>

NoMergeResult == [status |-> None, message |-> NoText]

CleanRepo == [merging |-> None, conflicts |-> FALSE, merged |-> {}, present |-> {}]

\* mergeBranchesIntoBase is not followed
MbIdle ==
  /\ mbCompleted = << >>
  /\ mbPc = "idle"
  /\ mbIdx = 1
  /\ mbFailed = << >>
  /\ mbResult = NoMergeResult
  /\ mbRepo = CleanRepo
  /\ mbLog = << >>

\* ------------------------------------------------------------ inputs, Init
MaxParallelInputs == {Undefined, 1, 2, 5}

MaxIterationsInputs == {Undefined, 0, 1}

ParsedTask == [group : 1..MaxGroups, completed : BOOLEAN]

\* Group keys are labels: a list introduces them in increasing order.
Canonical(ts) ==
  \A i \in 1..Len(ts) :
     ts[i].group <= 1 + Cardinality({ts[j].group : j \in 1..(i - 1)})

ParsedTaskLists ==
  {ts \in UNION {[1..n -> ParsedTask] : n \in 0..MaxTasks} : Canonical(ts)}

OptsSet ==
  {o \in [source : {"yaml", "markdown"}, github : BOOLEAN, prFlags : BOOLEAN,
          maxParallel : MaxParallelInputs, maxIterations : MaxIterationsInputs] :
     /\ (o.github \/ o.prFlags) => (o.maxParallel = Undefined /\ o.source = "yaml")
     /\ o.maxIterations # Undefined => o.maxParallel = Undefined}

IdleCleanup == [active |-> FALSE, preserveDirty |-> FALSE,
                removeBranches |-> TRUE, signal |-> None]

NoCall == [op |-> None, title |-> << >>, status |-> None, ref |-> 0]

NoLast == [op |-> None, title |-> << >>, status |-> None, ref |-> 0, text |-> << >>,
           before |-> << >>, beforeIssues |-> << >>]

\* runPrd is followed with the tasks already parsed: the source is not touched.
SrcIdle ==
  /\ srcKind = opts.source
  /\ srcContents = << >>
  /\ srcIssues = << >>
  /\ srcPrev = NoCall
  /\ srcLast = NoLast
  /\ srcOps = 0

\* The state of a process that has not called runPrd yet.
NothingObserved ==
  [dequeues |-> << >>, creates |-> << >>, submitted |-> << >>,
   failedPromotions |-> {}, finalCleanups |-> 0, unmarked |-> {}]

\* one more occurrence of key in a table of counts
Counted(counts, key) ==
  IF key \in DOMAIN counts THEN [counts EXCEPT ![key] = @ + 1]
  ELSE counts @@ (key :> 1)

RECURSIVE CountedAll(_, _)
CountedAll(counts, keys) ==
  IF keys = << >> THEN counts
  ELSE CountedAll(Counted(counts, Head(keys)), Tail(keys))

ParStart ==
  /\ pc = "start"
  /\ observed = NothingObserved
  /\ outcome = [status |-> None]
  /\ groups = << >>
  /\ queue = << >>
  /\ workers = << >>
  /\ serialChain = << >>
  /\ results = << >>
  /\ completedBranches = << >>
  /\ integrationBranches = << >>
  /\ baseBranch = NoBranch
  /\ originalBaseBranch = NoBranch
  /\ branches = (MainBranch :> {})
  /\ head = MainBranch
  /\ created = << >>
  /\ preserved = {}
  /\ cleanups = [c \in {"signal", "final"} |-> IdleCleanup]
  /\ registered = FALSE
  /\ handled = FALSE
  /\ firstSignal = None
  /\ sigCleanupCalls = 0
  /\ exitCode = 0
  /\ dirtyForceRemoved = FALSE
  /\ direct = [idx |-> 1, failed |-> << >>]
  /\ attempted = {}
  /\ merging = FALSE

\* The inputs of a run: the options and the tasks the source parses to.  Only
\* YAML tasks carry a parallel_group (the other sources and completed tasks
\* stay in one group); runs over more than two groups are the ones started
\* with an explicit --max-parallel, which yields at most two workers here.
InitPar ==
  /\ opts \in OptsSet
  /\ SrcIdle
  /\ OneIdle
  /\ SeqIdle
  /\ BmIdle
  /\ WtIdle
  /\ MbIdle
  /\ parsedTasks \in ParsedTaskLists
  /\ ((opts.source = "markdown" \/ \E i \in 1..Len(parsedTasks) : parsedTasks[i].completed)
        => \A i \in 1..Len(parsedTasks) : parsedTasks[i].group = 1)
  /\ ((opts.github \/ opts.prFlags \/ opts.maxParallel = 1) => Len(parsedTasks) <= 1)
  /\ (Cardinality({parsedTasks[i].group : i \in 1..Len(parsedTasks)}) > 2
        => opts.maxParallel # Undefined)
  /\ ParStart

\* ------------------------------------------------------ runPrd, first part
EmptyResponse(status, stage, stopped) ==
  [status |-> status, stage |-> stage, iterations |-> 0, completed |-> 0,
   stopped |-> stopped, tasks |-> << >>, usage |-> createUsageTotals]

Return(response) ==
  /\ pc' = "returned"
  /\ outcome' = response

Throw ==
  /\ pc' = "thrown"
  /\ outcome' = [status |-> "thrown"]

NoGroup == [group |-> 0, tasks |-> << >>]

\* result.usage of the runner for the task at a source position: what the
\* agent reports is fixed per task (cost only, cost and duration, neither).
ReportedUsage(index) ==
  CASE index % 3 = 0 -> AgentUsage(1, 2, 3, Undefined)
    [] index % 3 = 1 -> AgentUsage(1, 1, 4, 5)
    [] OTHER -> AgentUsage(0, 0, Undefined, Undefined)

NoRecord == [group |-> 0, branch |-> NoBranch, path |-> 0]

NoFailure == [stage |-> None, message |-> NoText, index |-> 0]

IdleWorker(group, base) ==
  [pc |-> "create", group |-> group, base |-> base, pos |-> 1, rec |-> NoRecord,
   result |-> [group |-> group.group, branches |-> << >>, tasks |-> << >>,
               completed |-> 0, usage |-> createUsageTotals, failure |-> NoFailure],
   integration |-> NoBranch, currentHead |-> NoBranch]

\* runPrd up to the dispatch to runParallelTasks: checkPrdRequirements (which
\* returns failures, or throws on an unreadable package.json) and the
\* maxIterations = 0 shortcut.
MainStart ==
  /\ UNCHANGED << notParVars, attempted, merging, observed >>
  /\ pc = "start"
  /\ \E req \in {"ok", "error", "throw"} :
       CASE req = "error" -> Return([status |-> "error", stage |-> "requirements"])
         [] req = "throw" -> Throw
         [] OTHER ->
              IF ensureMaxIterations(opts.maxIterations) = 0
                THEN Return(EmptyResponse("ok", None, "max-iterations"))
                ELSE pc' = "parallel" /\ UNCHANGED outcome
  /\ UNCHANGED << opts, parsedTasks, groups, queue, workers, serialChain, results,
                  completedBranches, integrationBranches, baseBranch,
                  originalBaseBranch, branches, head, created, preserved,
                  cleanups, registered, handled, firstSignal,
                  sigCleanupCalls, exitCode, dirtyForceRemoved, direct, attempted >>

\* runParallelTasks up to Promise.all: option checks, loadParallelTasks,
\* getCurrentBranch, registerCleanupSignals, and the synchronous start of
\* every worker() (each shifts its first group before its first await).
MainParallel ==
  /\ UNCHANGED << notParVars, attempted, merging >>
  /\ pc = "parallel"
  /\ \E fs \in {"ok", "throw"}, git \in {"ok", "throw"} :
       LET load == loadParallelTasks(opts, parsedTasks) IN
       IF opts.prFlags THEN
         /\ Return(EmptyResponse("error", "pr", None))
         /\ UNCHANGED << groups, queue, workers, baseBranch, originalBaseBranch, registered >>
       ELSE IF load.status = "error" THEN
         /\ Return(EmptyResponse("error", "task-source", None))
         /\ UNCHANGED << groups, queue, workers, baseBranch, originalBaseBranch, registered >>
       ELSE IF fs = "throw" THEN
         /\ Throw
         /\ UNCHANGED << groups, queue, workers, baseBranch, originalBaseBranch, registered >>
       ELSE IF load.status = "empty" THEN
         /\ Return(EmptyResponse("ok", None, "no-tasks"))
         /\ UNCHANGED << groups, queue, workers, baseBranch, originalBaseBranch, registered >>
       ELSE IF git = "throw" THEN
         /\ Throw
         /\ groups' = load.groups
         /\ UNCHANGED << queue, workers, baseBranch, originalBaseBranch, registered >>
       ELSE
         LET n == resolveMaxParallel(opts.maxParallel, Len(load.groups)) IN
         /\ groups' = load.groups
         /\ originalBaseBranch' = head
         /\ baseBranch' = head
         /\ registered' = TRUE
         /\ workers' = [w \in 1..n |->
                          IF w <= Len(load.groups)
                            THEN IdleWorker(load.groups[w], head)
                            ELSE [IdleWorker(NoGroup, head) EXCEPT !.pc = "done"]]
         /\ queue' = SubSeq(load.groups, n + 1, Len(load.groups))
         /\ pc' = "workers"
         /\ UNCHANGED outcome
  /\ observed' = IF pc' = "workers"
                   THEN [observed EXCEPT
                           !.dequeues =
                              CountedAll(@, [w \in 1..Min(Len(workers'), Len(groups')) |->
                                               groups'[w].group])]
                   ELSE observed
  /\ UNCHANGED << opts, parsedTasks, serialChain, results, completedBranches,
                  integrationBranches, branches, head, created, preserved,
                  cleanups, handled, firstSignal, sigCleanupCalls,
                  exitCode, dirtyForceRemoved, direct >>


\* ------------------------------------------------------------ the workers
shouldIntegrate == opts.source = "yaml" /\ Len(groups) > 1

Workers == DOMAIN workers

SetWorker(w, rec) == workers' = [workers EXCEPT ![w] = rec]

\* The group result is handed to serial(): the body is chained behind the
\* bodies submitted before it.
Submit(w, rec) ==
  /\ SetWorker(w, [rec EXCEPT !.pc = "queued"])
  /\ serialChain' = Append(serialChain, w)

\* the history after a step of worker w that may hand its result to serial()
Submitted(w) ==
  IF workers'[w].pc = "queued"
    THEN [observed EXCEPT !.submitted = Append(@, workers[w].group.group)]
    ELSE observed

groupBaseBranchNow(w) == baseBranch

\* const groupBaseBranch = baseBranch, taken when the group is dequeued
groupBaseBranch(w) == workers[w].base

\* runParallelGroup, first await: worktreeManager.createWorktree.
WCreate(w) ==
  /\ UNCHANGED << notParVars, attempted, merging >>
  /\ workers[w].pc = "create"
  /\ \E out \in {"ok", "throw"} :
       IF out = "throw" \/ groupBaseBranch(w) \notin DOMAIN branches THEN
         /\ SetWorker(w, [workers[w] EXCEPT !.pc = "thrown"])
         /\ UNCHANGED << branches, created >>
       ELSE
         LET name == buildBranchName(normalizeGroup(GroupText(workers[w].group.group)),
                                     DOMAIN branches)
             rec == [group |-> workers[w].group.group, branch |-> name, path |-> name]
         IN /\ branches' = branches @@ (name :> (branches[groupBaseBranch(w)] \cup {name}))
            /\ created' = Append(created, rec)
            /\ SetWorker(w, [workers[w] EXCEPT !.pc = "run", !.rec = rec])
  /\ observed' = [observed EXCEPT !.creates = Counted(@, workers[w].group.group)]
  /\ UNCHANGED << opts, parsedTasks, pc, outcome, groups, queue, serialChain, results,
                  completedBranches, integrationBranches, baseBranch,
                  originalBaseBranch, head, preserved, cleanups, registered, handled,
                  firstSignal, sigCleanupCalls, exitCode,
                  dirtyForceRemoved, direct >>

CurrentTask(w) == workers[w].group.tasks[workers[w].pos]

\* result.status === "dry-run" ? "Dry run not supported for PRD execution" : result.error
AgentMessage(status) == IF status = "dry-run" THEN DryRunNotSupported ELSE << "E1" >>

\* runParallelGroup: the runner call for the current task returns (or throws).
WRunner(w) ==
  /\ UNCHANGED << notParVars, merging >>
  /\ attempted' = attempted \cup {CurrentTask(w).index}
  /\ workers[w].pc = "run"
  /\ \E out \in {"ok", "error", "dry-run", "throw"} :
       LET me == workers[w]
           task == CurrentTask(w)
       IN
       CASE out = "ok" ->
                 /\ SetWorker(w, [me EXCEPT !.pc = "complete",
                        !.result.tasks = Append(@, [index |-> task.index, status |-> "completed"]),
                        !.result.usage = addUsageTotals(@, ReportedUsage(task.index)),
                        !.result.completed = @ + 1])
                 /\ UNCHANGED serialChain
            [] out = "throw" ->
                 /\ SetWorker(w, [me EXCEPT !.pc = "thrown"])
                 /\ UNCHANGED serialChain
            [] OTHER ->
                 Submit(w, [me EXCEPT
                        !.result.tasks = Append(@, [index |-> task.index, status |-> "failed"]),
                        !.result.failure = [stage |-> "agent", message |-> AgentMessage(out),
                                            index |-> task.index]])
  /\ observed' = Submitted(w)
  /\ UNCHANGED << opts, parsedTasks, pc, outcome, groups, queue, results,
                  completedBranches, integrationBranches, baseBranch,
                  originalBaseBranch, branches, head, created, preserved, cleanups,
                  registered, handled, firstSignal, sigCleanupCalls,
                  exitCode, dirtyForceRemoved, direct >>

ContinuesUnlessThrown(status) == status # "throw"

\* completion.status === "updated" || completion.status === "already-complete":
\* the for loop of the group goes on with its next task
Continues(status) == status \in {"updated", "already-complete"}

\* runParallelGroup: complete() for the task just run returns (or throws).
WComplete(w) ==
  /\ UNCHANGED << notParVars, attempted, merging >>
  /\ workers[w].pc = "complete"
  /\ \E out \in {"updated", "already-complete", "not-found", "error", "throw"} :
       LET me == workers[w]
           task == CurrentTask(w)
       IN
       /\ IF out = "throw" THEN
            /\ SetWorker(w, [me EXCEPT !.pc = "thrown"])
            /\ UNCHANGED serialChain
          ELSE IF Continues(out) THEN
            IF me.pos < Len(me.group.tasks)
              THEN /\ SetWorker(w, [me EXCEPT !.pc = "run", !.pos = @ + 1])
                   /\ UNCHANGED serialChain
              ELSE Submit(w, [me EXCEPT !.result.branches = << me.rec.branch >>])
          ELSE
            Submit(w, [me EXCEPT
                   !.result.failure = [stage |-> "complete", message |-> TaskNotFound,
                                       index |-> task.index]])
       /\ observed' = [Submitted(w) EXCEPT
                         !.unmarked = IF out \in {"updated", "already-complete"}
                                        THEN @ ELSE @ \cup {task.index}]
  /\ UNCHANGED << opts, parsedTasks, pc, outcome, groups, queue, results,
                  completedBranches, integrationBranches, baseBranch,
                  originalBaseBranch, branches, head, created, preserved,
                  cleanups, registered, handled, firstSignal,
                  sigCleanupCalls, exitCode, dirtyForceRemoved, direct >>

settledUnlessThrown(chain, nextPc) == IF nextPc = "thrown" THEN chain ELSE Tail(chain)

\* chain = next.then(() => undefined, () => undefined): the chain goes on
\* whether the body returned or threw
settled(chain, nextPc) == Tail(chain)

\* The serial() body ends: the next body of the chain may start and the
\* worker goes back to the head of its while loop.
LeaveSerial(w, rec, nextPc) ==
  /\ SetWorker(w, [rec EXCEPT !.pc = nextPc])
  /\ serialChain' = settled(serialChain, nextPc)

\* The serial() body up to the first await of mergeGroupIntoIntegration.
SerialBegin(w) ==
  /\ UNCHANGED << notParVars, attempted, merging, observed >>
  /\ workers[w].pc = "queued"
  /\ serialChain # << >> /\ Head(serialChain) = w
  /\ LET me == workers[w] IN
     /\ results' = Append(results, me.result)
     /\ completedBranches' = completedBranches \o me.result.branches
     /\ IF me.result.failure # NoFailure \/ ~shouldIntegrate \/ me.result.branches = << >>
          THEN LeaveSerial(w, me, "loop")
          ELSE /\ SetWorker(w, [me EXCEPT !.pc = "mgBranch"])
               /\ UNCHANGED serialChain
  /\ UNCHANGED << opts, parsedTasks, pc, outcome, groups, queue, integrationBranches,
                  baseBranch, originalBaseBranch, branches, head, created, preserved, cleanups, registered, handled, firstSignal,
                  sigCleanupCalls, exitCode, dirtyForceRemoved, direct >>

DropBranch(name) == [b \in (DOMAIN branches) \ {name} |-> branches[b]]

\* mergeGroupIntoIntegration: listBranches (throws on failure) and
\* `git branch <integrationBranch> <baseBranch>` (tryGit).
MgBranch(w) ==
  /\ UNCHANGED << notParVars, attempted, merging, observed >>
  /\ workers[w].pc = "mgBranch"
  /\ \E out \in {"ok", "error", "throw"} :
       LET me == workers[w]
           name == buildIntegrationBranchName(GroupText(me.result.group), DOMAIN branches)
       IN
       CASE out = "throw" ->
              /\ LeaveSerial(w, me, "thrown")
              /\ UNCHANGED branches
         [] out = "error" ->
              /\ LeaveSerial(w, me, "loop")
              /\ UNCHANGED branches
         [] OTHER ->
              /\ branches' = branches @@ (name :> branches[baseBranch])
              /\ SetWorker(w, [me EXCEPT !.pc = "mgCheckout", !.integration = name])
              /\ UNCHANGED serialChain
  /\ UNCHANGED << opts, parsedTasks, pc, outcome, groups, queue, results,
                  completedBranches, integrationBranches, baseBranch,
                  originalBaseBranch, head, created, preserved, cleanups,
                  registered, handled, firstSignal, sigCleanupCalls,
                  exitCode, dirtyForceRemoved, direct >>

\* mergeGroupIntoIntegration: `git symbolic-ref --short HEAD` and
\* `git checkout <integrationBranch>`.
MgCheckout(w) ==
  /\ UNCHANGED << notParVars, attempted, merging, observed >>
  /\ workers[w].pc = "mgCheckout"
  /\ \E out \in {"ok", "error"}, headKnown \in BOOLEAN :
       LET me == workers[w] IN
       IF out = "ok" THEN
         /\ head' = me.integration
         /\ SetWorker(w, [me EXCEPT !.pc = "mgMerge",
                                    !.currentHead = IF headKnown THEN head ELSE NoBranch])
         /\ UNCHANGED << serialChain, branches >>
       ELSE
         /\ branches' = DropBranch(me.integration)
         /\ LeaveSerial(w, [me EXCEPT !.integration = NoBranch], "loop")
         /\ UNCHANGED head
  /\ UNCHANGED << opts, parsedTasks, pc, outcome, groups, queue, results,
                  completedBranches, integrationBranches, baseBranch,
                  originalBaseBranch, created, preserved, cleanups,
                  registered, handled, firstSignal, sigCleanupCalls,
                  exitCode, dirtyForceRemoved, direct >>

\* tryGit: the message of the error the git runner raised for the command
GitFailure(command, branch) == << "git", command, branch >>

mergeAbortNot(inProgress) == inProgress

\* git merge --abort
mergeAbort(inProgress) == FALSE

RestoreHead(me) == IF me.currentHead # NoBranch THEN me.currentHead ELSE originalBaseBranch

\* mergeGroupIntoIntegration: `git merge --no-edit <branch>` for the group's
\* branch, the restore of HEAD, and back in the worker the update of the
\* integration list and of the current base.
MgMerge(w) ==
  /\ UNCHANGED << notParVars, attempted >>
  /\ workers[w].pc = "mgMerge"
  /\ \E out \in {"ok", "error"} :
       LET me == workers[w]
           branch == me.result.branches[1]
       IN
       /\ head' = RestoreHead(me)
       /\ IF out = "ok" THEN
            /\ branches' = [branches EXCEPT ![me.integration] = @ \cup branches[branch]]
            /\ integrationBranches' = Append(integrationBranches, me.integration)
            /\ baseBranch' = me.integration
            /\ LeaveSerial(w, me, "loop")
            /\ UNCHANGED merging
          ELSE
            /\ merging' = mergeAbort(TRUE)
            /\ branches' = DropBranch(me.integration)
            /\ LeaveSerial(w, [me EXCEPT !.integration = NoBranch], "loop")
            /\ UNCHANGED << integrationBranches, baseBranch >>
  /\ observed' = IF integrationBranches' = integrationBranches
                   THEN [observed EXCEPT !.failedPromotions =
                           @ \cup {workers[w].result.group}]
                   ELSE observed
  /\ UNCHANGED << opts, parsedTasks, pc, outcome, groups, queue, results,
                  completedBranches, originalBaseBranch, created, preserved,
                  cleanups, registered, handled, firstSignal,
                  sigCleanupCalls, exitCode, dirtyForceRemoved, direct >>

\* worker(): the head of the while loop after a group: shift the next group,
\* reading the current base, or return when the queue is empty.
WLoop(w) ==
  /\ UNCHANGED << notParVars, attempted, merging >>
  /\ workers[w].pc = "loop"
  /\ IF queue = << >>
       THEN /\ SetWorker(w, [workers[w] EXCEPT !.pc = "done"])
            /\ UNCHANGED queue
       ELSE /\ SetWorker(w, IdleWorker(Head(queue), baseBranch))
            /\ queue' = Tail(queue)
  /\ observed' = IF queue = << >> THEN observed
                 ELSE [observed EXCEPT !.dequeues = Counted(@, Head(queue).group)]
  /\ UNCHANGED << opts, parsedTasks, pc, outcome, groups, serialChain, results,
                  completedBranches, integrationBranches, baseBranch,
                  originalBaseBranch, branches, head, created, preserved,
                  cleanups, registered, handled, firstSignal,
                  sigCleanupCalls, exitCode, dirtyForceRemoved, direct >>


\* ------------------------------------------------- signals and cleanup()
StartCleanup(preserve, remove, signal) ==
  [active |-> TRUE, preserveDirty |-> preserve,
   removeBranches |-> remove, signal |-> signal]

\* registerCleanupSignals' handler, called for a SIGINT or SIGTERM that arrives
\* while it is installed; once `handled` is set a call returns at once and
\* changes nothing.
Signal(sig) ==
  /\ UNCHANGED << notParVars, attempted, merging, observed >>
  /\ registered
  /\ HandlerRuns(handled)
  /\ handled' = TRUE
  /\ firstSignal' = IF firstSignal = None THEN sig ELSE firstSignal
  /\ sigCleanupCalls' = sigCleanupCalls + 1
  /\ cleanups' = [cleanups EXCEPT !["signal"] = StartCleanup(TRUE, FALSE, sig)]
  /\ UNCHANGED << opts, parsedTasks, pc, outcome, groups, queue, workers, serialChain,
                  results, completedBranches, integrationBranches, baseBranch,
                  originalBaseBranch, branches, head, created, preserved,
                  registered, exitCode, dirtyForceRemoved, direct >>

\* isWorktreeDirty: `git status --porcelain` prints something or cannot be
\* run; dirtyNow is the set of worktrees for which that is so at the time of
\* the call.
isWorktreeDirty(path, dirtyNow) == path \in dirtyNow

Paths(records) == {records[i].path : i \in 1..Len(records)}

\* cleanup(): the pass over the `created` records.  A record is retained when
\* preserveDirty is set and its worktree is dirty; every other record is
\* dropped after `git worktree remove --force`, which fails for the paths in
\* `failing`.
Retained(preserve, dirtyNow) ==
  SelectSeq(created, LAMBDA r : preserve /\ isWorktreeDirty(r.path, dirtyNow))

ToRemove(preserve, dirtyNow) ==
  {p \in Paths(created) : ~(preserve /\ isWorktreeDirty(p, dirtyNow))}

Removed(c, removing, failing) ==
  /\ branches' = IF cleanups[c].removeBranches
                   THEN [b \in (DOMAIN branches) \ removing |-> branches[b]]
                   ELSE branches
  /\ dirtyForceRemoved' =
       (dirtyForceRemoved \/ (handled /\ (removing \ failing) \cap preserved # {}))
  /\ cleanups' = [cleanups EXCEPT ![c].active = FALSE]

CleanupPass(c, dirtyNow, failing) ==
  /\ created' = Retained(cleanups[c].preserveDirty, dirtyNow)
  /\ preserved' = IF cleanups[c].preserveDirty THEN preserved \cup dirtyNow ELSE {}
  /\ Removed(c, ToRemove(cleanups[c].preserveDirty, dirtyNow), failing)

\* The cleanup() started by the signal handler runs and ends (with or without
\* errors); the handler's finally callback sets process.exitCode.
SigCleanup ==
  /\ UNCHANGED << notParVars, attempted, merging, observed >>
  /\ cleanups["signal"].active
  /\ \E dirtyNow \in SUBSET Paths(created) :
       \E failing \in SUBSET ToRemove(TRUE, dirtyNow) :
          CleanupPass("signal", dirtyNow, failing)
  /\ exitCode' = ExitCodeFor(cleanups["signal"].signal)
  /\ UNCHANGED << opts, parsedTasks, pc, outcome, groups, queue, workers, serialChain,
                  results, completedBranches, integrationBranches, baseBranch,
                  originalBaseBranch, head, registered, handled,
                  firstSignal, sigCleanupCalls, direct >>

\* ------------------------------------------------ runParallelTasks, the end
AnyThrown == \E w \in Workers : workers[w].pc = "thrown"

AllDone == \A w \in Workers : workers[w].pc = "done"

\* Promise.all settles (all workers returned, or the first one threw): the
\* finally block releases the signal handler and starts the final cleanup.
MainAwait ==
  /\ UNCHANGED << notParVars, attempted, merging >>
  /\ pc = "workers"
  /\ AnyThrown \/ AllDone
  /\ pc' = IF AnyThrown THEN "finalCleanupThrow" ELSE "finalCleanup"
  /\ registered' = FALSE
  /\ cleanups' = [cleanups EXCEPT !["final"] = StartCleanup(FALSE, FALSE, None)]
  /\ observed' = [observed EXCEPT !.finalCleanups = @ + 1]
  /\ UNCHANGED << opts, parsedTasks, outcome, groups, queue, workers, serialChain,
                  results, completedBranches, integrationBranches, baseBranch,
                  originalBaseBranch, branches, head, created, preserved,
                  handled, firstSignal, sigCleanupCalls, exitCode,
                  dirtyForceRemoved, direct >>

\* The final cleanup({removeBranches: false}) runs; a collected error, or the
\* worker's exception that was pending, leaves runPrd as an exception.
FinalCleanup ==
  /\ UNCHANGED << notParVars, attempted, merging, observed >>
  /\ pc \in {"finalCleanup", "finalCleanupThrow"}
  /\ cleanups["final"].active
  /\ \E failing \in SUBSET ToRemove(FALSE, {}) :
       /\ CleanupPass("final", {}, failing)
       /\ IF failing # {} \/ pc = "finalCleanupThrow"
            THEN Throw
            ELSE pc' = "aggregate" /\ UNCHANGED outcome
  /\ UNCHANGED << opts, parsedTasks, groups, queue, workers, serialChain, results,
                  completedBranches, integrationBranches, baseBranch,
                  originalBaseBranch, head, registered, handled,
                  firstSignal, sigCleanupCalls, exitCode, direct >>

RECURSIVE FlatTasks(_)
FlatTasks(rs) == IF rs = << >> THEN << >> ELSE Head(rs).tasks \o FlatTasks(Tail(rs))

RECURSIVE InsertByIndex(_, _)
InsertByIndex(sorted, t) ==
  IF sorted = << >> THEN << t >>
  ELSE IF t.index < Head(sorted).index THEN << t >> \o sorted
  ELSE << Head(sorted) >> \o InsertByIndex(Tail(sorted), t)

SortByIndexNot(ts) == ts

\* .sort((a, b) => a.index - b.index)
RECURSIVE SortByIndex(_)
SortByIndex(ts) ==
  IF ts = << >> THEN << >>
  ELSE InsertByIndex(SortByIndex(SubSeq(ts, 1, Len(ts) - 1)), ts[Len(ts)])

RECURSIVE SumCompleted(_)
SumCompleted(rs) == IF rs = << >> THEN 0 ELSE Head(rs).completed + SumCompleted(Tail(rs))

FirstFailureLast(rs) ==
  LET failedAt == {i \in 1..Len(rs) : rs[i].failure # NoFailure} IN
  IF failedAt = {} THEN NoFailure
  ELSE rs[CHOOSE i \in failedAt : \A j \in failedAt : i >= j].failure

\* results.forEach: if (!failure && result.failure) failure = result.failure
FirstFailure(rs) ==
  LET failedAt == {i \in 1..Len(rs) : rs[i].failure # NoFailure} IN
  IF failedAt = {} THEN NoFailure
  ELSE rs[CHOOSE i \in failedAt : \A j \in failedAt : i <= j].failure

RECURSIVE SumUsage(_, _)
SumUsage(totals, rs) ==
  IF rs = << >> THEN totals
  ELSE SumUsage(addUsageTotals(totals, Head(rs).usage), Tail(rs))

ParallelResponse(status, stage, message, task) ==
  LET tasks == SortByIndex(FlatTasks(results)) IN
  [status |-> status, stage |-> stage, message |-> message, task |-> task,
   iterations |-> Len(tasks),
   completed |-> SumCompleted(results),
   stopped |-> IF loadParallelTasks(opts, parsedTasks).truncated
                 THEN "max-iterations" ELSE "no-tasks",
   tasks |-> tasks, usage |-> SumUsage(createUsageTotals, results)]

\* After the finally block: flatten and sort the run records, report the
\* first failure, or enter mergeBranchesIntoBase.
MainAggregate ==
  /\ UNCHANGED << notParVars, attempted, merging, observed >>
  /\ pc = "aggregate"
  /\ LET failure == FirstFailure(results) IN
     IF failure # NoFailure THEN Return(ParallelResponse("error", failure.stage, failure.message, failure.index))
     ELSE IF completedBranches = << >> THEN Return(ParallelResponse("ok", None, NoText, Undefined))
     ELSE pc' = "merge" /\ UNCHANGED outcome
  /\ UNCHANGED << opts, parsedTasks, groups, queue, workers, serialChain, results,
                  completedBranches, integrationBranches, baseBranch,
                  originalBaseBranch, branches, head, created, preserved,
                  cleanups, registered, handled, firstSignal,
                  sigCleanupCalls, exitCode, dirtyForceRemoved, direct >>

\* mergeBranchesIntoBase: `git checkout <originalBaseBranch>`.
MainMergeCheckout ==
  /\ UNCHANGED << notParVars, attempted, merging, observed >>
  /\ pc = "merge"
  /\ \E out \in {"ok", "error"} :
       IF out = "error" THEN
         /\ Return(ParallelResponse("error", "merge",
                                    GitFailure("checkout", originalBaseBranch), Undefined))
         /\ UNCHANGED head
       ELSE
         /\ head' = originalBaseBranch
         /\ pc' = IF integrationBranches # << >> THEN "mergeFinal" ELSE "mergeDirect"
         /\ UNCHANGED outcome
  /\ UNCHANGED << opts, parsedTasks, groups, queue, workers, serialChain, results,
                  completedBranches, integrationBranches, baseBranch,
                  originalBaseBranch, branches, created, preserved,
                  cleanups, registered, handled, firstSignal,
                  sigCleanupCalls, exitCode, dirtyForceRemoved, direct >>

SeqToSet(q) == {q[i] : i \in 1..Len(q)}

\* `Merge conflicts remain in: ${failed.join(", ")}`
ConflictsRemain(failed) == << "Merge conflicts remain in: ", failed >>

\* mergeBranchesIntoBase with integration branches: merge only the last one,
\* then delete every integration branch and every parallel branch.
MainMergeFinal ==
  /\ UNCHANGED << notParVars, attempted, observed >>
  /\ pc = "mergeFinal"
  /\ \E out \in {"ok", "error"} :
       LET finalIntegration == integrationBranches[Len(integrationBranches)] IN
       IF out = "error" THEN
         /\ Return(ParallelResponse("error", "merge",
                                    GitFailure("merge --no-edit", finalIntegration), Undefined))
         /\ merging' = mergeAbort(TRUE)
         /\ UNCHANGED branches
       ELSE
         /\ UNCHANGED merging
         /\ branches' =
              [b \in (DOMAIN branches) \ (SeqToSet(integrationBranches) \cup SeqToSet(completedBranches)) |->
                 IF b = originalBaseBranch
                   THEN branches[b] \cup branches[finalIntegration]
                   ELSE branches[b]]
         /\ Return(ParallelResponse("ok", None, NoText, Undefined))
  /\ UNCHANGED << opts, parsedTasks, groups, queue, workers, serialChain, results,
                  completedBranches, integrationBranches, baseBranch,
                  originalBaseBranch, head, created, preserved, cleanups,
                  registered, handled, firstSignal, sigCleanupCalls,
                  exitCode, dirtyForceRemoved, direct >>

\* mergeBranchesIntoBase without integration branches: one iteration of the
\* loop over completedBranches, with the AI merge resolver on a conflict.  The
\* branch is merged, resolved by the agent, refused by git without a
\* conflicted file (the resolver then returns ok and nothing is merged), or
\* left unresolved.  SpecMerge follows the same loop command by command.
MainMergeDirect ==
  /\ UNCHANGED << notParVars, attempted, merging, observed >>
  /\ pc = "mergeDirect"
  /\ \E out \in {"merged", "resolved", "refused", "unresolved", "throw"} :
       LET branch == completedBranches[direct.idx]
           failed == IF out = "unresolved" THEN Append(direct.failed, branch)
                     ELSE direct.failed
           last == direct.idx = Len(completedBranches)
       IN
       IF out = "throw" THEN
         /\ Throw
         /\ UNCHANGED << branches, direct >>
       ELSE
         /\ direct' = [idx |-> direct.idx + 1, failed |-> failed]
         /\ branches' =
              IF out \in {"unresolved", "refused"} THEN branches
              ELSE [b \in (DOMAIN branches) \ {branch} |->
                      IF b = originalBaseBranch
                        THEN branches[b] \cup branches[branch]
                        ELSE branches[b]]
         /\ IF ~last THEN UNCHANGED << pc, outcome >>
            ELSE IF failed # << >>
              THEN Return(ParallelResponse("error", "merge", ConflictsRemain(failed), Undefined))
            ELSE Return(ParallelResponse("ok", None, NoText, Undefined))
  /\ UNCHANGED << opts, parsedTasks, groups, queue, workers, serialChain, results,
                  completedBranches, integrationBranches, baseBranch,
                  originalBaseBranch, head, created, preserved, cleanups,
                  registered, handled, firstSignal, sigCleanupCalls,
                  exitCode, dirtyForceRemoved >>

\* ------------------------------------------------------- the specification
Next ==
  \/ MainStart
  \/ MainParallel
  \/ \E w \in Workers : WCreate(w)
  \/ \E w \in Workers : WRunner(w)
  \/ \E w \in Workers : WComplete(w)
  \/ \E w \in Workers : SerialBegin(w)
  \/ \E w \in Workers : MgBranch(w)
  \/ \E w \in Workers : MgCheckout(w)
  \/ \E w \in Workers : MgMerge(w)
  \/ \E w \in Workers : WLoop(w)
  \/ \E sig \in {"SIGINT", "SIGTERM"} : Signal(sig)
  \/ SigCleanup
  \/ MainAwait
  \/ FinalCleanup
  \/ MainAggregate
  \/ MainMergeCheckout
  \/ MainMergeFinal
  \/ MainMergeDirect

Spec == InitPar /\ [][Next]_vars


\* ======================================================= the task sources
\* The documents and issue lists the calls are made on.
Spaces(n) == [i \in 1..n |-> SP]

MarkdownLines ==
  { << "-", SP, "[", SP, "]", SP, "A" >>,
    << "-", SP, "[", "x", "]", SP, "A" >>,
    Spaces(2) \o << "*", SP, "[", SP, "]", SP, SP, "B" >>,
    << "-", SP, "[", "X", "]", SP, "B" >>,
    << "-", TAB, "[", SP, "]", SP, "A", SP >>,
    << "#", SP, "A" >>,
    << >> }

ItemTitle(t) == Spaces(2) \o << "-", SP, "title", ":", SP, t >>

PropCompleted(v) == Spaces(4) \o << "completed", ":", SP, v >>

YamlBlocks ==
  { << ItemTitle("A"), PropCompleted("false") >>,
    << ItemTitle("A") >>,
    << ItemTitle("B"), PropCompleted("true") >>,
    << ItemTitle("A"), PropCompleted("false") \o << SP, "#", SP, "todo" >> >>,
    << ItemTitle("B"), PropCompleted("true") \o << SP, "#", SP, "done" >> >>,
    << Spaces(2) \o << "-", SP, "completed", ":", SP, "false" >>,
       Spaces(4) \o << "title", ":", SP, "A" >> >>,
    << Spaces(2) \o << "-", SP, "parallel_group", ":", SP, "2" >>,
       Spaces(4) \o << "title", ":", SP, "\"", "B", "\"" >>,
       Spaces(4) \o << "completed", SP, ":", SP, "False" >> >>,
    << ItemTitle("A"), << >>, Spaces(6) \o << "parallel_group", ":", SP, "1" >> >> }

Issues == [title : {<< "A" >>, << "B", SP >>}, state : {"OPEN", "CLOSED"}]

Titles == {<< "A" >>, << "B" >>, << SP, "A", SP >>}

Eols == {<< LF >>, << CR, LF >>}

UpTo(S) == UNION {[1..n -> S] : n \in 1..MaxItems}

RECURSIVE Flatten(_)
Flatten(ss) == IF ss = << >> THEN << >> ELSE Head(ss) \o Flatten(Tail(ss))

\* Every line followed by the document's line ending.
Document(lines, eol) == Flatten([i \in 1..Len(lines) |-> lines[i] \o eol])

MarkdownDocuments == {Document(lines, eol) : lines \in UpTo(MarkdownLines), eol \in Eols}

YamlDocuments ==
  {Document(<< << "tasks", ":" >> >> \o Flatten(blocks), eol) :
     blocks \in UpTo(YamlBlocks), eol \in Eols}

\* Issues are numbered from 1 in the order gh lists them.
IssueLists ==
  {[k \in 1..Len(l) |-> [number |-> k, title |-> l[k].title, state |-> l[k].state]] :
     l \in UpTo(Issues)}

InitSrc ==
  /\ srcKind \in {"markdown", "yaml", "github"}
  /\ srcContents \in (IF srcKind = "markdown" THEN MarkdownDocuments
                      ELSE IF srcKind = "yaml" THEN YamlDocuments
                      ELSE {<< >>})
  /\ srcIssues \in (IF srcKind = "github" THEN IssueLists ELSE {<< >>})
  /\ srcPrev = NoCall
  /\ srcLast = NoLast
  /\ srcOps = 0
  /\ OneIdle
  /\ SeqIdle
  /\ BmIdle
  /\ WtIdle
  /\ MbIdle
  /\ opts = [source |-> IF srcKind = "github" THEN "yaml" ELSE srcKind,
             github |-> srcKind = "github", prFlags |-> FALSE,
             maxParallel |-> Undefined, maxIterations |-> Undefined]
  /\ parsedTasks = << >>
  /\ ParStart

Called == [op |-> srcLast.op, title |-> srcLast.title, status |-> srcLast.status,
           ref |-> srcLast.ref]

NextCall(result) ==
  [op |-> "next", title |-> << >>, status |-> result.status, ref |-> result.ref,
   text |-> result.text, before |-> srcContents, beforeIssues |-> srcIssues]

CompleteCall(task, result) ==
  [op |-> "complete", title |-> task, status |-> result.status, ref |-> result.ref,
   text |-> << >>, before |-> srcContents, beforeIssues |-> srcIssues]

\* GET /v1/tasks/next
TasksNext ==
  /\ srcOps < MaxOps
  /\ srcOps' = srcOps + 1
  /\ srcPrev' = Called
  /\ srcLast' = NextCall(getNextTask)
  /\ UNCHANGED << srcKind, srcContents, srcIssues, notSrcVars >>

Applied(task, result) ==
  /\ srcContents' = result.contents
  /\ srcIssues' = result.issues
  /\ srcLast' = CompleteCall(task, result)

\* POST /v1/tasks/complete
TasksComplete(task) ==
  /\ srcOps < MaxOps
  /\ srcOps' = srcOps + 1
  /\ srcPrev' = Called
  /\ Applied(task, completeTask(task))
  /\ UNCHANGED << srcKind, notSrcVars >>

NextSrc ==
  \/ TasksNext
  \/ \E task \in Titles : TasksComplete(task)

SpecSrc == InitSrc /\ [][NextSrc]_vars


\* ================================================== the single-task executor
\* What the agent runner hands back: the decoded events of stdout, stderr and
\* the exit code.
Event(type) ==
  [type |-> type, errorMessage |-> NoText, message |-> NoText, result |-> NoText,
   text |-> NoText]

ResultEvent(result) == [Event("result") EXCEPT !.result = result]

TextEvent(text) == [Event("text") EXCEPT !.text = text]

Output(events, stderr, code) == [stdout |-> events, stderr |-> stderr, exitCode |-> code]

AgentOutputs ==
  { Output(<< ResultEvent(<< "R" >>) >>, NoText, 0),
    Output(<< ResultEvent(<< "R" >>), ResultEvent(<< SP >>) >>, NoText, 0),
    Output(<< ResultEvent(<< SP >>) >>, << "warn" >>, 0),
    Output(<< >>, << "warn" >>, 1),
    Output(<< ResultEvent(<< "R" >>) >>, NoText, 2),
    Output(<< [Event("error") EXCEPT !.errorMessage = << "E1" >>, !.message = << "E2" >>],
              ResultEvent(<< "R" >>) >>, NoText, 0),
    Output(<< ResultEvent(<< "R" >>), Event("error") >>, << "warn" >>, 1),
    Output(<< [Event("error") EXCEPT !.message = << "E2" >>] >>, NoText, 0),
    Output(<< TextEvent(<< "R" >>), Event("other"), TextEvent(<< "S", SP >>) >>, NoText, 0) }

MaxRetriesInputs == {Undefined, 0, Whole(1), Whole(2), 5}

RetryDelayInputs == {Undefined, 0, 2}

InitSingle ==
  /\ request \in [engine : {None, "opencode"}, maxRetries : MaxRetriesInputs,
                  retryDelay : RetryDelayInputs, dryRun : BOOLEAN]
  /\ singlePc = "start"
  /\ attempts = 0
  /\ lastError = NoText
  /\ lastResult = NoResult
  /\ singleResponse = NoResponse
  /\ invocations = << >>
  /\ delays = << >>
  /\ opts = [source |-> "yaml", github |-> FALSE, prFlags |-> FALSE,
             maxParallel |-> Undefined, maxIterations |-> Undefined]
  /\ SrcIdle
  /\ SeqIdle
  /\ BmIdle
  /\ WtIdle
  /\ MbIdle
  /\ parsedTasks = << >>
  /\ ParStart

\* runSingleTask up to the loop: the prompt is built, a dry run returns it.
SingleStart ==
  /\ singlePc = "start"
  /\ IF request.dryRun
       THEN /\ singleResponse' = DryRunResponse(ensureEngine(request.engine))
            /\ singlePc' = "done"
       ELSE /\ singlePc' = "loop"
            /\ UNCHANGED singleResponse
  /\ attempts' = 0
  /\ lastError' = NoText
  /\ lastResult' = NoResult
  /\ UNCHANGED << request, invocations, delays, notOneVars >>

Classified(out, count, parsed, error) ==
  /\ invocations' = Append(invocations, [output |-> out, error |-> error])
  /\ IF error = NoText
       THEN /\ singleResponse' = OkResponse(ensureEngine(request.engine), count, parsed, out)
            /\ singlePc' = "done"
            /\ UNCHANGED lastError
       ELSE /\ lastError' = error
            /\ singlePc' = IF Below(count, maxRetries) THEN "delay" ELSE "loop"
            /\ UNCHANGED singleResponse

Parsed(out, count, parsed) ==
  Classified(out, count, parsed, AttemptError(parsed, out.exitCode))

\* One pass of the retry loop: the runner is called and hands back `out`.
SingleAttempt(out) ==
  /\ singlePc = "loop"
  /\ Below(attempts, maxRetries)
  /\ attempts' = attempts + 1
  /\ lastResult' = out
  /\ Parsed(out, attempts + 1, parseAgentOutput(ensureEngine(request.engine), out.stdout))
  /\ UNCHANGED << request, delays, notOneVars >>

\* await delay(retryDelay) between two attempts
SingleDelay ==
  /\ singlePc = "delay"
  /\ delays' = Append(delays, delay(retryDelay))
  /\ singlePc' = "loop"
  /\ UNCHANGED << request, attempts, lastError, lastResult, singleResponse,
                  invocations,
                  notOneVars >>

\* The loop is left without a successful attempt.
SingleExhausted ==
  /\ singlePc = "loop"
  /\ ~Below(attempts, maxRetries)
  /\ singleResponse' = ErrorResponse(ensureEngine(request.engine), attempts, lastError, lastResult)
  /\ singlePc' = "done"
  /\ UNCHANGED << request, attempts, lastError, lastResult, invocations, delays,
                  notOneVars >>

NextSingle ==
  \/ SingleStart
  \/ \E out \in AgentOutputs : SingleAttempt(out)
  \/ SingleDelay
  \/ SingleExhausted

SpecSingle == InitSingle /\ [][NextSingle]_vars


\* ================================================== the sequential PRD loop
\* runPrd's dependencies (deps.getNextTask, deps.runner, deps.completeTask,
\* deps.createPullRequest, deps.branchManagerFactory) answer as they like:
\* every call is logged with what it returned, "thrown" for a rejection.
Call(op, task, status, value) == [op |-> op, task |-> task, status |-> status, value |-> value]

SeqTasks == {<< "A" >>, << "B" >>}

TaskBranches == {"ralphy/a", "ralphy/a-2"}

MaxIterationsHalves == {Undefined, Whole(0 - 1), 0, Whole(1), 3, Whole(2)}

NextOk(text) == [status |-> "ok", text |-> text, source |-> "markdown", error |-> NoText]

NextResults ==
  {NextOk(t) : t \in SeqTasks}
    \cup {[status |-> "empty", text |-> NoText, source |-> "markdown", error |-> NoText],
          [status |-> "error", text |-> NoText, source |-> "markdown",
           error |-> << "Missing task source file" >>],
          [status |-> "thrown", text |-> NoText, source |-> "markdown", error |-> NoText]}

RunnerResult(status, count, text, error, usage) ==
  [status |-> status, attempts |-> count, response |-> text, error |-> error,
   usage |-> usage]

RunnerResults ==
  { RunnerResult("ok", 1, << "R" >>, NoText, AgentUsage(0, 0, Undefined, Undefined)),
    RunnerResult("ok", 2, << "R" >>, NoText, AgentUsage(1, 2, 3, Undefined)),
    RunnerResult("ok", 1, << "R" >>, NoText, AgentUsage(1, 1, 4, 5)),
    RunnerResult("error", 3, NoText, << "E1" >>, createUsageTotals),
    RunnerResult("dry-run", 0, NoText, NoText, createUsageTotals),
    RunnerResult("thrown", 0, NoText, NoText, createUsageTotals) }

CompleteResults ==
  { [status |-> "updated", error |-> NoText],
    [status |-> "already-complete", error |-> NoText],
    [status |-> "not-found", error |-> NoText],
    [status |-> "error", error |-> << "Missing task source file" >>],
    [status |-> "thrown", error |-> NoText] }

PrFailed == << "gh pr create failed" >>

OutcomeOf(ok) == IF ok THEN "ok" ELSE "thrown"

InitSeq ==
  /\ seqOpts \in [maxIterations : MaxIterationsHalves, branchPerTask : BOOLEAN,
                  createPr : BOOLEAN, draftPr : BOOLEAN]
  /\ seqPc = "start"
  /\ SeqLocals
  /\ opts = [source |-> "markdown", github |-> FALSE, prFlags |-> FALSE,
             maxParallel |-> Undefined, maxIterations |-> Undefined]
  /\ SrcIdle
  /\ OneIdle
  /\ BmIdle
  /\ WtIdle
  /\ MbIdle
  /\ parsedTasks = << >>
  /\ ParStart

\* One step of runPrd: the call it awaited is logged and the locals move on.
Locals(count, done, records, totals, task, branch, result) ==
  /\ iterations' = count
  /\ completedCount' = done
  /\ runTasks' = records
  /\ usageTotals' = totals
  /\ seqTask' = task
  /\ taskBranch' = branch
  /\ runnerResult' = result

SameLocals ==
  UNCHANGED << iterations, completedCount, runTasks, usageTotals, seqTask, taskBranch,
               runnerResult >>

Goto(position, call) ==
  /\ seqPc' = position
  /\ calls' = Append(calls, call)
  /\ UNCHANGED << pending, seqOutcome >>

\* The function is left before its try block: nothing stands in the way.
Settle(out, call) ==
  /\ seqPc' = "done"
  /\ seqOutcome' = out
  /\ calls' = Append(calls, call)
  /\ UNCHANGED pending

\* The try block is left with `out` (a return value or an exception): the
\* outer finally block calls branchManager.cleanup() when there is a manager.
Leave(out, call) ==
  /\ calls' = Append(calls, call)
  /\ IF seqOpts.branchPerTask
       THEN /\ seqPc' = "cleanup"
            /\ pending' = out
            /\ UNCHANGED seqOutcome
       ELSE /\ seqPc' = "done"
            /\ seqOutcome' = out
            /\ UNCHANGED pending

\* checkPrdRequirements, the maxIterations === 0 return, the manager's
\* creation
SeqBegin(requirements) ==
  /\ seqPc = "start"
  /\ SameLocals
  /\ IF requirements = "error"
       THEN Settle(RequirementsFailure, Call("requirements", NoText, requirements, None))
     ELSE IF maxIterations = 0
       THEN Settle(OkStopped("max-iterations", iterations, completedCount, runTasks,
                             usageTotals),
                   Call("requirements", NoText, requirements, None))
     ELSE Goto(IF seqOpts.branchPerTask THEN "prepare" ELSE "next",
               Call("requirements", NoText, requirements, None))
  /\ UNCHANGED << seqOpts, notSeqVars >>

\* await branchManager.prepare(), ahead of the try block
SeqPrepare(ok) ==
  /\ seqPc = "prepare"
  /\ SameLocals
  /\ IF ok THEN Goto("next", Call("prepare", NoText, "ok", None))
           ELSE Settle(Thrown, Call("prepare", NoText, "thrown", None))
  /\ UNCHANGED << seqOpts, notSeqVars >>

OpenHanded == Cardinality({i \in 1..Len(calls) : calls[i].op = "next" /\ calls[i].status = "ok"})

\* await nextTask(taskSourceOptions) and what follows up to the next await
SeqNext(next) ==
  /\ seqPc = "next"
  /\ next.status = "ok" => OpenHanded < MaxRounds
  /\ IF next.status = "ok"
       THEN /\ Locals(iterations + 1, completedCount, runTasks, usageTotals, next.text,
                      None, NoRunnerResult)
            /\ Goto(IF seqOpts.branchPerTask THEN "checkout" ELSE "run",
                    Call("next", next.text, "ok", None))
       ELSE /\ SameLocals
            /\ Leave(IF next.status = "empty"
                       THEN OkStopped("no-tasks", iterations, completedCount, runTasks,
                                      usageTotals)
                     ELSE IF next.status = "error"
                       THEN StageError("task-source", next.error, NoText, iterations,
                                       runTasks, usageTotals)
                     ELSE Thrown,
                     Call("next", NoText, next.status, None))
  /\ UNCHANGED << seqOpts, notSeqVars >>

\* taskBranch = await branchManager.checkoutForTask(taskText)
SeqCheckout(branch) ==
  /\ seqPc = "checkout"
  /\ IF branch = None
       THEN /\ SameLocals
            /\ Leave(Thrown, Call("checkout", seqTask, "thrown", None))
       ELSE /\ Locals(iterations, completedCount, runTasks, usageTotals, seqTask, branch,
                      runnerResult)
            /\ Goto("run", Call("checkout", seqTask, "ok", branch))
  /\ UNCHANGED << seqOpts, notSeqVars >>

\* What follows the inner try/finally once the runner has returned `result`.
AfterRun(result, call) ==
  IF result.status = "ok"
    THEN /\ Locals(iterations, completedCount + 1,
                   Append(runTasks, buildSuccessTask(seqTask, srcKind, result.attempts,
                                                     result.response)),
                   addUsageTotals(usageTotals, result.usage), seqTask, taskBranch, result)
         /\ Goto("complete", call)
    ELSE /\ Locals(iterations, completedCount,
                   Append(runTasks,
                          buildFailureTask(seqTask, srcKind,
                                           IF result.status = "dry-run" THEN 0
                                           ELSE result.attempts,
                                           IF result.status = "dry-run" THEN DryRunNotSupported
                                           ELSE result.error)),
                   usageTotals, seqTask, taskBranch, result)
         /\ Leave(StageError("agent",
                             IF result.status = "dry-run" THEN DryRunNotSupported
                             ELSE result.error,
                             seqTask, iterations, runTasks', usageTotals),
                  call)

finallyOnReturn(result) == result.status # "thrown"

\* try { result = await runner(...) } finally { ... }: the finally block is
\* entered whether the runner returned or threw
finally(result) == TRUE

\* result = await runner({...})
SeqRun(result) ==
  /\ seqPc = "run"
  /\ IF seqOpts.branchPerTask /\ finally(result)
       THEN /\ Locals(iterations, completedCount, runTasks, usageTotals, seqTask,
                      taskBranch, result)
            /\ Goto("finish", Call("runner", seqTask, result.status, result))
     ELSE IF result.status = "thrown"
       THEN /\ SameLocals
            /\ Leave(Thrown, Call("runner", seqTask, result.status, result))
     ELSE AfterRun(result, Call("runner", seqTask, result.status, result))
  /\ UNCHANGED << seqOpts, notSeqVars >>

\* the inner finally block: await branchManager.finishTask()
SeqFinish(ok) ==
  /\ seqPc = "finish"
  /\ IF ~ok \/ runnerResult.status = "thrown"
       THEN /\ SameLocals
            /\ Leave(Thrown, Call("finish", seqTask, OutcomeOf(ok), None))
       ELSE AfterRun(runnerResult, Call("finish", seqTask, "ok", None))
  /\ UNCHANGED << seqOpts, notSeqVars >>

\* `continue`, or `break` and the return behind the loop
Continue(call) ==
  IF LimitReached
    THEN Leave(OkStopped("max-iterations", iterations, completedCount, runTasks,
                         usageTotals), call)
    ELSE Goto("next", call)

MarkedOrFound(completion) == completion.status \in {"updated", "already-complete", "not-found"}

\* completion.status === "updated" || completion.status === "already-complete"
Marked(completion) == completion.status \in {"updated", "already-complete"}

createPrOnly(options) == options.createPr

\* if (options.createPr || options.draftPr)
createPrOrDraft(options) == options.createPr \/ options.draftPr

\* what the loop does with the completion
Completed(completion) ==
  /\ seqPc = "complete"
  /\ SameLocals
  /\ IF Marked(completion)
       THEN IF createPrOrDraft(seqOpts)
              THEN Goto("pr", Call("complete", seqTask, completion.status, None))
              ELSE Continue(Call("complete", seqTask, completion.status, None))
     ELSE Leave(IF completion.status = "not-found"
                  THEN StageError("complete", TaskNotFound, seqTask, iterations, runTasks,
                                  usageTotals)
                ELSE IF completion.status = "error"
                  THEN StageError("complete", completion.error, seqTask, iterations,
                                  runTasks, usageTotals)
                ELSE Thrown,
                Call("complete", seqTask, completion.status, None))

\* completion = await complete(taskText, taskSourceOptions)
SeqComplete(completion) ==
  /\ Completed(completion)
  /\ UNCHANGED << seqOpts, notSeqVars >>

\* await createPr({..., headBranch: taskBranch, draft: options.draftPr})
SeqPr(ok) ==
  /\ seqPc = "pr"
  /\ SameLocals
  /\ IF ok
       THEN Continue(Call("pr", seqTask, "ok", taskBranch))
       ELSE Leave(StageError("pr", PrFailed, seqTask, iterations, runTasks, usageTotals),
                  Call("pr", seqTask, "thrown", taskBranch))
  /\ UNCHANGED << seqOpts, notSeqVars >>

\* the outer finally block: await branchManager.cleanup()
SeqCleanup(ok) ==
  /\ seqPc = "cleanup"
  /\ SameLocals
  /\ seqPc' = "done"
  /\ seqOutcome' = IF ok THEN pending ELSE Thrown
  /\ calls' = Append(calls, Call("cleanup", NoText, OutcomeOf(ok), None))
  /\ UNCHANGED << pending, seqOpts, notSeqVars >>

NextSeq ==
  \/ \E requirements \in {"ok", "error"} : SeqBegin(requirements)
  \/ \E ok \in BOOLEAN : SeqPrepare(ok)
  \/ \E next \in NextResults : SeqNext(next)
  \/ \E branch \in TaskBranches \cup {None} : SeqCheckout(branch)
  \/ \E result \in RunnerResults : SeqRun(result)
  \/ \E ok \in BOOLEAN : SeqFinish(ok)
  \/ \E completion \in CompleteResults : SeqComplete(completion)
  \/ \E ok \in BOOLEAN : SeqPr(ok)
  \/ \E ok \in BOOLEAN : SeqCleanup(ok)

SpecSeq == InitSeq /\ [][NextSeq]_vars

\* ------------------------------------------- branch manager, one sequence
BmTasks == {<< "X" >>, << "x", SP, "-" >>, << "*" >>}

ConfiguredBases ==
  {NotGiven, Given(NoText), Given(<< SP >>), Given(<< "main" >>),
   Given(<< SP, "dev", SP >>)}

UserStash == [message |-> "wip", on |-> MainBranch]

TaskBranch(task) == [kind |-> "task", slug |-> slugifyTask(task, DefaultSlugLength), n |-> 1]

InitBranch ==
  /\ managerPc = "start"
  /\ \E configured \in ConfiguredBases : ManagerCreated(configured)
  /\ gitHead \in {MainBranch, DevBranch}
  /\ gitBranches \in {{MainBranch, DevBranch},
                      {MainBranch, DevBranch, TaskBranch(<< "x" >>)}}
  /\ gitStash \in {<< >>, << UserStash >>}
  /\ gitDirty \in BOOLEAN
  /\ gitBefore = [head |-> gitHead, stash |-> gitStash, dirty |-> gitDirty]
  /\ opts = [source |-> "markdown", github |-> FALSE, prFlags |-> FALSE,
             maxParallel |-> Undefined, maxIterations |-> Undefined]
  /\ SrcIdle
  /\ OneIdle
  /\ SeqIdle
  /\ parsedTasks = << >>
  /\ ParStart
  /\ WtIdle
  /\ MbIdle

TaskRounds == Cardinality({i \in 1..Len(gitLog) : gitLog[i].cmd = "checkout -b"})

\* prepare
BmPrepare ==
  /\ managerPc = "start"
  /\ LET original == gitHead
         base == BaseOrOriginal(TrimmedBase(configuredBase), original)
         stashed == IF gitDirty
                      THEN << [message |-> StashMessage, on |-> gitHead] >> \o gitStash
                      ELSE gitStash
         pushLog == IF gitDirty THEN << Git("prepare", "stash push", None) >> ELSE << >>
         moveLog == IF base # original
                      THEN << Git("prepare", "checkout", base) >> ELSE << >>
     IN /\ originalBranch' = original
        /\ managerBase' = base
        /\ gitStash' = stashed
        /\ gitDirty' = FALSE
        /\ stashRef' = IF gitDirty THEN TopStashRef(stashed) ELSE stashRef
        /\ gitHead' = IF base # original THEN base ELSE gitHead
        /\ gitLog' = gitLog \o pushLog \o moveLog
  /\ managerPc' = "ready"
  /\ UNCHANGED << configuredBase, gitBranches, gitBefore >>
  /\ UNCHANGED notBmVars

\* checkoutForTask(task)
BmCheckoutForTask(task) ==
  /\ managerPc = "ready"
  /\ TaskRounds < MaxRounds
  /\ LET branchName == ensureUniqueBranchName("task",
                          slugifyTask(task, DefaultSlugLength), gitBranches)
     IN /\ gitBranches' = gitBranches \cup {branchName}
        /\ gitHead' = branchName
        /\ gitLog' = Append(gitLog, Git("checkoutForTask", "checkout -b", branchName))
  /\ managerPc' = "task"
  /\ UNCHANGED << configuredBase, managerBase, originalBranch, stashRef,
                  gitStash, gitDirty, gitBefore >>
  /\ UNCHANGED notBmVars

\* finishTask
BmFinishTask ==
  /\ managerPc = "task"
  /\ LET target == IF managerBase # NoBranch THEN managerBase ELSE originalBranch
     IN /\ gitHead' = target
        /\ gitLog' = Append(gitLog, Git("finishTask", "checkout", target))
  /\ managerPc' = "ready"
  /\ UNCHANGED << configuredBase, managerBase, originalBranch, stashRef,
                  gitBranches, gitStash, gitDirty, gitBefore >>
  /\ UNCHANGED notBmVars

\* cleanup
BmCleanup ==
  /\ managerPc = "ready"
  /\ LET back == NeedsCheckout(originalBranch, managerBase)
         backLog == IF back THEN << Git("cleanup", "checkout", originalBranch) >>
                    ELSE << >>
         popLog == IF stashRef # Undefined
                     THEN << Git("cleanup", "stash pop", None) >> ELSE << >>
     IN /\ gitHead' = IF back THEN originalBranch ELSE gitHead
        /\ gitStash' = IF stashRef # Undefined THEN Popped(gitStash, stashRef)
                       ELSE gitStash
        /\ gitDirty' = IF stashRef # Undefined THEN TRUE ELSE gitDirty
        /\ gitLog' = gitLog \o backLog \o popLog
  /\ managerPc' = "done"
  /\ UNCHANGED << configuredBase, managerBase, originalBranch, stashRef,
                  gitBranches, gitBefore >>
  /\ UNCHANGED notBmVars

NextBranch ==
  \/ BmPrepare
  \/ \E task \in BmTasks : BmCheckoutForTask(task)
  \/ BmFinishTask
  \/ BmCleanup

SpecBranch == InitBranch /\ [][NextBranch]_vars

\* ------------------------------------------------------ worktree manager
\* The groups createWorktree is called for; String(1) and String(-1) slugify
\* to the same text.
WtGroupInputs == {1, 0 - 1, 2}

\* A path is absolute or not and has segments; a segment is a text.  ".." on
\* its own is the parent segment.
Path(abs, segs) == [abs |-> abs, segs |-> segs]

Parent == << ".." >>

\* the working directory of the run: options.cwd ?? process.cwd()
Cwd == Path(TRUE, << << "repo" >> >>)

\* path.normalize on the segments: a parent segment removes the one before
\* it, and is dropped at the root of an absolute path
RECURSIVE NormalizeInto(_, _, _)
NormalizeInto(abs, acc, rest) ==
  IF rest = << >> THEN acc
  ELSE IF Head(rest) # Parent THEN NormalizeInto(abs, Append(acc, Head(rest)), Tail(rest))
  ELSE IF acc # << >> /\ acc[Len(acc)] # Parent
    THEN NormalizeInto(abs, SubSeq(acc, 1, Len(acc) - 1), Tail(rest))
  ELSE IF abs THEN NormalizeInto(abs, acc, Tail(rest))
  ELSE NormalizeInto(abs, Append(acc, Head(rest)), Tail(rest))

\* path.join(a, b): the segments of b follow those of a, whether or not b
\* starts with a slash
join(a, b) == Path(a.abs, NormalizeInto(a.abs, << >>, a.segs \o b.segs))

\* the length of the longest common prefix
RECURSIVE CommonPrefix(_, _)
CommonPrefix(a, b) ==
  IF a = << >> \/ b = << >> \/ Head(a) # Head(b) THEN 0
  ELSE 1 + CommonPrefix(Tail(a), Tail(b))

\* path.relative(from, to) for two absolute paths
relative(from, to) ==
  LET k == CommonPrefix(from.segs, to.segs) IN
  Path(FALSE, [i \in 1..(Len(from.segs) - k) |-> Parent]
                \o SubSeq(to.segs, k + 1, Len(to.segs)))

\* path.basename
basename(p) == Path(FALSE, << p.segs[Len(p.segs)] >>)

\* relativePath.startsWith(".."): the first characters of the path text
startsWithDots(p) == p.segs # << >> /\ Head(p.segs)[1] = ".."

\* isAbsolute(path) ? path : join(cwd, path)
resolvePath(path, cwd) == IF path.abs THEN path ELSE join(cwd, path)

\* resolveTaskSourcePath of prd.ts: join(cwd, options.yaml), else
\* join(cwd, options.prd ?? "PRD.md")
resolveTaskSourcePath(options, cwd) ==
  IF options.yaml # NoPath THEN join(cwd, options.yaml)
  ELSE join(cwd, IF options.prd # NoPath THEN options.prd
                 ELSE Path(FALSE, << << "PRD.md" >> >>))

\* resolveTaskSourcePath of worktrees.ts: path.startsWith("/") ? path : resolve(cwd, path)
resolveAbsolute(cwd, path) == IF path.abs THEN path ELSE join(cwd, path)

toWorktreeTargetPathRelative(cwd, absolutePath) == relative(cwd, absolutePath)

\* a source outside cwd is copied under its base name
toWorktreeTargetPath(cwd, absolutePath) ==
  LET relativePath == relative(cwd, absolutePath) IN
  IF startsWithDots(relativePath) THEN basename(absolutePath) ELSE relativePath

\* copyTaskSource: where the copy of the task source is written
copyTaskSource(cwd, worktreePath, sourcePath) ==
  join(worktreePath, toWorktreeTargetPath(cwd, resolveAbsolute(cwd, sourcePath)))

\* buildWorktreeRoot: join(cwd, ".ralphy", "worktrees")
buildWorktreeRoot(cwd) == join(cwd, Path(FALSE, << << ".ralphy" >>, << "worktrees" >> >>))

\* branchName.replace(/^ralphy\/parallel\//, ""): the slug and its suffix
worktreeName(branch) ==
  IF branch.n = 1 THEN branch.slug ELSE branch.slug \o << "-", ToString(branch.n) >>

\* ensureUniquePath: the base path, else the first free `${basePath}-${counter}`
ensureUniquePath(basePath, existing) ==
  IF basePath \notin existing THEN basePath
  ELSE LET last == Len(basePath.segs)
           candidate(k) == [basePath EXCEPT !.segs[last] = @ \o << "-", ToString(k) >>]
           counter == CHOOSE k \in 2..(Cardinality(existing) + 2) :
                         /\ candidate(k) \notin existing
                         /\ \A j \in 2..(k - 1) : candidate(j) \in existing
       IN candidate(counter)

WorktreeRecord(group, branch, path, taskSourcePath, copiedTaskSource) ==
  [group |-> group, branch |-> branch, path |-> path,
   taskSourcePath |-> taskSourcePath, copiedTaskSource |-> copiedTaskSource]

\* the directories of the worktrees the repository has
TreePaths ==
  {join(buildWorktreeRoot(Cwd), Path(FALSE, << worktreeName(b) >>)) : b \in wtTrees}

GitCommand(by, cmd, branch, flag) ==
  [by |-> by, cmd |-> cmd, branch |-> branch, flag |-> flag]

InitWt ==
  /\ wtCreated = << >>
  /\ wtCalls = << >>
  /\ wtCleanup = NoCleanup
  /\ wtPasses = << >>
  /\ wtBranches = {MainBranch}
  /\ wtTrees = {}
  /\ wtLog = << >>
  /\ wtSource = DefaultSource
  /\ wtCompletes = << >>
  /\ MbIdle
  /\ opts = [source |-> "markdown", github |-> FALSE, prFlags |-> FALSE,
             maxParallel |-> Undefined, maxIterations |-> Undefined]
  /\ SrcIdle
  /\ OneIdle
  /\ SeqIdle
  /\ BmIdle
  /\ parsedTasks = << >>
  /\ ParStart

\* createWorktree, to the branch name: `git branch --list` answers with the
\* branches of that moment, and the name is built from the answer.
WtCreateList(group) ==
  /\ UNCHANGED notWtVars
  /\ Len(wtCalls) < MaxGroups
  /\ \A c \in 1..Len(wtCalls) : wtCalls[c].group # group
  /\ LET normalizedGroup == normalizeGroup(GroupText(group))
         branchName == buildBranchName(normalizedGroup, wtBranches)
     IN wtCalls' = Append(wtCalls, [pc |-> "add", group |-> group,
                                    normalizedGroup |-> normalizedGroup,
                                    branch |-> branchName])
  /\ UNCHANGED << wtCreated, wtCleanup, wtPasses, wtBranches, wtTrees, wtLog,
                  wtSource, wtCompletes >>

\* createWorktree, from `git worktree add -b`: git refuses a branch name that
\* exists, and the call rejects; else the record is pushed.
WtCreateAdd(c) ==
  /\ UNCHANGED notWtVars
  /\ c \in 1..Len(wtCalls)
  /\ wtCalls[c].pc = "add"
  /\ LET branchName == wtCalls[c].branch
         present == branchName \in wtBranches
     IN /\ wtLog' = Append(wtLog, GitCommand(0, "worktree add -b", branchName, present))
        /\ IF present
             THEN /\ wtCalls' = [wtCalls EXCEPT ![c].pc = "thrown"]
                  /\ UNCHANGED << wtCreated, wtBranches, wtTrees >>
             ELSE /\ wtCalls' = [wtCalls EXCEPT ![c].pc = "done"]
                  /\ wtBranches' = wtBranches \cup {branchName}
                  /\ wtTrees' = wtTrees \cup {branchName}
                  /\ wtCreated' =
                       LET basePath == join(buildWorktreeRoot(Cwd),
                                            Path(FALSE, << worktreeName(branchName) >>))
                           worktreePath == ensureUniquePath(basePath, TreePaths)
                           taskSourcePath == resolveTaskSourcePath(wtSource, Cwd)
                       IN Append(wtCreated,
                                 WorktreeRecord(wtCalls[c].normalizedGroup, branchName,
                                                worktreePath, taskSourcePath,
                                                copyTaskSource(Cwd, worktreePath,
                                                               taskSourcePath)))
  /\ UNCHANGED << wtCleanup, wtPasses, wtSource, wtCompletes >>

\* created.length = 0; created.push(...remaining)
resetCreatedNot(remaining) == << >>

resetCreated(remaining) == remaining

FinishedCleanup(call, seen, remaining, errors) ==
  [preserveDirty |-> call.preserveDirty, removeBranches |-> call.removeBranches,
   first |-> call.first, seen |-> seen, kept |-> remaining, threw |-> errors]

\* cleanup, to its first await; with no record it is over at once
WtCleanupCall(preserveDirty, removeBranches) ==
  /\ UNCHANGED notWtVars
  /\ ~wtCleanup.active
  /\ Len(wtPasses) < MaxOps
  /\ LET call == [active |-> TRUE, preserveDirty |-> preserveDirty,
                  removeBranches |-> removeBranches, first |-> wtCreated,
                  pos |-> 1, remaining |-> << >>, errors |-> FALSE]
     IN IF wtCreated = << >>
          THEN /\ wtPasses' = Append(wtPasses, FinishedCleanup(call, << >>, << >>, FALSE))
               /\ wtCreated' = resetCreated(<< >>)
               /\ UNCHANGED wtCleanup
          ELSE /\ wtCleanup' = call
               /\ UNCHANGED << wtPasses, wtCreated >>
  /\ UNCHANGED << wtCalls, wtBranches, wtTrees, wtLog, wtSource, wtCompletes >>

\* cleanup: one turn of its loop over created, and what follows the last turn
WtCleanupRecord ==
  /\ UNCHANGED notWtVars
  /\ wtCleanup.active
  /\ LET by == Len(wtPasses) + 1
         record == wtCreated[wtCleanup.pos]
     IN \E dirty \in BOOLEAN, removed \in BOOLEAN :
          LET keep == wtCleanup.preserveDirty /\ dirty
              status == IF wtCleanup.preserveDirty
                          THEN << GitCommand(by, "status --porcelain", record.branch, dirty) >>
                          ELSE << >>
              remove == IF keep THEN << >>
                        ELSE << GitCommand(by, "worktree remove --force", record.branch, removed) >>
              trees == IF ~keep /\ removed THEN wtTrees \ {record.branch} ELSE wtTrees
              deleted == record.branch \notin trees
              delete == IF keep \/ ~wtCleanup.removeBranches THEN << >>
                        ELSE << GitCommand(by, "branch -D", record.branch, deleted) >>
              remaining == IF keep THEN Append(wtCleanup.remaining, record)
                           ELSE wtCleanup.remaining
              errors == \/ wtCleanup.errors
                        \/ ~keep /\ ~removed
                        \/ ~keep /\ wtCleanup.removeBranches /\ ~deleted
          IN /\ wtCleanup.preserveDirty \/ ~dirty
             /\ keep => removed
             /\ wtLog' = wtLog \o status \o remove \o delete
             /\ wtTrees' = trees
             /\ wtBranches' = IF ~keep /\ wtCleanup.removeBranches /\ deleted
                                THEN wtBranches \ {record.branch}
                                ELSE wtBranches
             /\ IF wtCleanup.pos < Len(wtCreated)
                  THEN /\ wtCleanup' = [wtCleanup EXCEPT !.pos = @ + 1,
                                                         !.remaining = remaining,
                                                         !.errors = errors]
                       /\ UNCHANGED << wtCreated, wtPasses >>
                  ELSE /\ wtCleanup' = NoCleanup
                       /\ wtCreated' = resetCreated(remaining)
                       /\ wtPasses' = Append(wtPasses,
                                             FinishedCleanup(wtCleanup, wtCreated, remaining, errors))
  /\ UNCHANGED << wtCalls, wtSource, wtCompletes >>

NextWt ==
  \/ \E group \in WtGroupInputs : WtCreateList(group)
  \/ \E c \in 1..MaxGroups : WtCreateAdd(c)
  \/ \E preserveDirty \in BOOLEAN, removeBranches \in BOOLEAN :
       WtCleanupCall(preserveDirty, removeBranches)
  \/ WtCleanupRecord

SpecWt == InitWt /\ [][NextWt]_vars

\* ----------------------------------------- the groups' task source copies
\* options.yaml / options.prd of the runs followed: a file of cwd, of a
\* directory of cwd, of the parent directory, of a sibling whose name starts
\* with two dots, a path with a leading slash, a detour through the parent.
SourcePaths ==
  { Path(FALSE, << << "tasks.yaml" >> >>),
    Path(FALSE, << << "docs" >>, << "tasks.yaml" >> >>),
    Path(FALSE, << Parent, << "tasks.yaml" >> >>),
    Path(FALSE, << << "..", "cache" >>, << "tasks.yaml" >> >>),
    Path(TRUE, << << "data" >>, << "tasks.yaml" >> >>),
    Path(FALSE, << Parent, << "repo" >>, << "tasks.yaml" >> >>) }

TaskSourceInputs ==
  [yaml : SourcePaths \cup {NoPath},
   prd : {NoPath, Path(FALSE, << << "docs" >>, << "PRD.md" >> >>)}]

InitTaskFiles ==
  /\ wtCreated = << >>
  /\ wtCalls = << >>
  /\ wtCleanup = NoCleanup
  /\ wtPasses = << >>
  /\ wtBranches = {MainBranch}
  /\ wtTrees = {}
  /\ wtLog = << >>
  /\ wtSource \in TaskSourceInputs
  /\ wtCompletes = << >>
  /\ MbIdle
  /\ opts = [source |-> "markdown", github |-> FALSE, prFlags |-> FALSE,
             maxParallel |-> Undefined, maxIterations |-> Undefined]
  /\ SrcIdle
  /\ OneIdle
  /\ SeqIdle
  /\ BmIdle
  /\ parsedTasks = << >>
  /\ ParStart

\* record.copiedTaskSource ?? resolveTaskSourcePath(options, record.path),
\* handed over as yaml or prd together with cwd: record.path
buildTaskSourceOverride(record, options) ==
  LET path == IF record.copiedTaskSource # NoPath THEN record.copiedTaskSource
              ELSE resolveTaskSourcePath(options, record.path)
  IN IF options.yaml # NoPath
       THEN [cwd |-> record.path, yaml |-> path, prd |-> NoPath]
       ELSE [cwd |-> record.path, yaml |-> NoPath, prd |-> path]

\* selectSource(options).path, the file completeTask reads and writes
selectedPath(options) ==
  IF options.yaml # NoPath THEN resolvePath(options.yaml, options.cwd)
  ELSE resolvePath(IF options.prd # NoPath THEN options.prd
                   ELSE Path(FALSE, << << "PRD.md" >> >>),
                   options.cwd)

\* runParallelGroup: complete(task.text, buildTaskSourceOverride(...)) for a
\* task of the group that runs in record i; only `updated` writes the file.
GroupComplete(i, status) ==
  /\ UNCHANGED notWtVars
  /\ i \in 1..Len(wtCreated)
  /\ Len(wtCompletes) < MaxOps
  /\ LET record == wtCreated[i]
         target == selectedPath(buildTaskSourceOverride(record, wtSource))
     IN wtCompletes' = Append(wtCompletes,
                              [record |-> record, target |-> target, status |-> status,
                               written |-> IF status = "updated" THEN {target} ELSE {}])
  /\ UNCHANGED << wtCreated, wtCalls, wtCleanup, wtPasses, wtBranches, wtTrees, wtLog,
                  wtSource >>

NextTaskFiles ==
  \/ \E group \in WtGroupInputs : WtCreateList(group)
  \/ \E c \in 1..MaxGroups : WtCreateAdd(c)
  \/ \E i \in 1..MaxGroups,
         status \in {"updated", "already-complete", "not-found", "error"} :
       GroupComplete(i, status)

SpecTaskFiles == InitTaskFiles /\ [][NextTaskFiles]_vars


\* =========================================== mergeBranchesIntoBase, step by step
\* The direct path of mergeBranchesIntoBase with every git command and every
\* agent call as a step of its own.  Branches are named by the number of
\* their group.

MergeBranches == {ToString(g) : g \in 1 .. MaxGroups}

\* the orders in which the groups' branches can have been pushed onto
\* completedBranches
CompletedOrders ==
  { s \in UNION { [1 .. n -> MergeBranches] : n \in 0 .. MaxGroups } :
      \A i, j \in DOMAIN s : i # j => s[i] # s[j] }

CouldNotResolve == << "Merge conflict could not be resolved automatically" >>

InitMerge ==
  /\ opts = [source |-> "markdown", github |-> FALSE, prFlags |-> FALSE,
             maxParallel |-> Undefined, maxIterations |-> Undefined]
  /\ parsedTasks = << >>
  /\ ParStart
  /\ SrcIdle
  /\ OneIdle
  /\ SeqIdle
  /\ BmIdle
  /\ WtIdle
  /\ mbCompleted \in CompletedOrders
  /\ mbPc = "start"
  /\ mbIdx = 1
  /\ mbFailed = << >>
  /\ mbResult = NoMergeResult
  /\ mbRepo = [CleanRepo EXCEPT !.present = SeqToSet(mbCompleted)]
  /\ mbLog = << >>

mbBranch == mbCompleted[mbIdx]

Ran(cmd, result) ==
  Append(mbLog, [branch |-> mbBranch, cmd |-> cmd, result |-> result, message |-> NoText])

\* return of mergeBranchesIntoBase
MbReturn(status, message) ==
  /\ mbResult' = [status |-> status, message |-> message]
  /\ mbPc' = "done"

\* the end of one pass of `for (const branch of completedBranches)` and, after
\* the last one, the test of `failed`
MbNext(failed) ==
  /\ mbFailed' = failed
  /\ IF mbIdx < Len(mbCompleted)
       THEN /\ mbIdx' = mbIdx + 1
            /\ mbPc' = "merge"
            /\ UNCHANGED mbResult
       ELSE /\ UNCHANGED mbIdx
            /\ IF failed # << >>
                 THEN MbReturn("error", ConflictsRemain(failed))
                 ELSE MbReturn("ok", NoText)

noneRemainEver(conflicted) == TRUE

\* remaining.length === 0
noneRemain(conflicted) == ~conflicted

\* conflicts.length === 0
noConflicts(conflicted) == ~conflicted

\* what `git diff --name-only --diff-filter=U` prints
Listed == IF mbRepo.conflicts THEN "conflicts" ELSE "none"

\* mergeResult.status === "ok", resolved.status === "ok": the branch is deleted
deletes(status) == status = "ok"

\* what resolveMergeWithAi returns, and what the loop does with it
MbResolved(log, status, message) ==
  /\ mbLog' = Append(log, [branch |-> mbBranch, cmd |-> "resolveMergeWithAi",
                           result |-> status, message |-> message])
  /\ IF deletes(status)
       THEN /\ mbPc' = "delete"
            /\ UNCHANGED << mbIdx, mbFailed, mbResult >>
       ELSE MbNext(Append(mbFailed, mbBranch))

MbStart ==
  /\ UNCHANGED << notMbVars, mbCompleted, mbIdx, mbFailed, mbRepo, mbLog >>
  /\ mbPc = "start"
  /\ IF Len(mbCompleted) = 0
       THEN MbReturn("ok", NoText)
       ELSE /\ mbPc' = "checkout"
            /\ UNCHANGED mbResult

MbCheckout ==
  /\ UNCHANGED << notMbVars, mbCompleted, mbIdx, mbFailed, mbRepo >>
  /\ mbPc = "checkout"
  /\ \E out \in {"ok", "error"} :
       /\ mbLog' = Append(mbLog, [branch |-> None, cmd |-> "checkout",
                                  result |-> out, message |-> NoText])
       /\ IF out = "error"
            THEN MbReturn("error", GitFailure("checkout", None))
            ELSE /\ mbPc' = "merge"
                 /\ UNCHANGED mbResult

\* git merge --no-edit <branch>: it merges, stops on conflicts, or refuses
\* (a merge is already in progress, the work tree is dirty, ...)
MbMerge ==
  /\ UNCHANGED << notMbVars, mbCompleted, mbIdx, mbFailed, mbResult >>
  /\ mbPc = "merge"
  /\ \E out \in {"ok", "conflict", "refused"} :
       /\ out # "refused" => mbRepo.merging = None /\ mbBranch \in mbRepo.present
       /\ mbLog' = Ran("merge --no-edit", out)
       /\ mbRepo' =
            CASE out = "ok" -> [mbRepo EXCEPT !.merged = @ \cup {mbBranch}]
              [] out = "conflict" -> [mbRepo EXCEPT !.merging = mbBranch, !.conflicts = TRUE]
              [] OTHER -> mbRepo
       /\ mbPc' = IF deletes(IF out = "ok" THEN "ok" ELSE "error")
                    THEN "delete" ELSE "conflicts"

\* listConflicts at the top of resolveMergeWithAi; the git call can throw
MbConflicts ==
  /\ UNCHANGED << notMbVars, mbCompleted, mbRepo >>
  /\ mbPc = "conflicts"
  /\ \E thrown \in BOOLEAN :
       IF thrown THEN
         /\ mbLog' = Ran("diff", "throw")
         /\ mbPc' = "thrown"
         /\ UNCHANGED << mbIdx, mbFailed, mbResult >>
       ELSE IF noConflicts(mbRepo.conflicts) THEN
         /\ MbResolved(Ran("diff", Listed), "ok", NoText)
       ELSE
         /\ mbLog' = Ran("diff", Listed)
         /\ mbPc' = "agent"
         /\ UNCHANGED << mbIdx, mbFailed, mbResult >>

\* await options.agentRunner(...): the agent leaves the conflicts, resolves
\* them, resolves and commits them, or gives the merge up; it can throw
MbAgent ==
  /\ UNCHANGED << notMbVars, mbCompleted, mbIdx, mbFailed, mbResult >>
  /\ mbPc = "agent"
  /\ \E out \in {"left", "resolved", "committed", "aborted", "throw"} :
       /\ out = "committed" => mbRepo.merging # None
       /\ mbLog' = Ran("agent", out)
       /\ mbRepo' =
            CASE out = "resolved" -> [mbRepo EXCEPT !.conflicts = FALSE]
              [] out = "committed" ->
                   [mbRepo EXCEPT !.conflicts = FALSE, !.merging = None,
                                  !.merged = @ \cup {mbRepo.merging}]
              [] out = "aborted" -> [mbRepo EXCEPT !.conflicts = FALSE, !.merging = None]
              [] OTHER -> mbRepo
       /\ mbPc' = IF out = "throw" THEN "thrown" ELSE "remaining"

\* the second listConflicts
MbRemaining ==
  /\ UNCHANGED << notMbVars, mbCompleted, mbIdx, mbFailed, mbResult, mbRepo >>
  /\ mbPc = "remaining"
  /\ \E thrown \in BOOLEAN :
       IF thrown THEN
         /\ mbLog' = Ran("diff", "throw")
         /\ mbPc' = "thrown"
       ELSE
         /\ mbLog' = Ran("diff", Listed)
         /\ mbPc' = IF noneRemain(mbRepo.conflicts) THEN "inProgress" ELSE "abort"

\* isMergeInProgress: a failing rev-parse counts as "no merge in progress"
MbInProgress ==
  /\ UNCHANGED << notMbVars, mbCompleted, mbRepo >>
  /\ mbPc = "inProgress"
  /\ \E out \in {"ok", "error"} :
       IF out = "ok" /\ mbRepo.merging # None THEN
         /\ mbLog' = Ran("rev-parse MERGE_HEAD", "in-progress")
         /\ mbPc' = "commit"
         /\ UNCHANGED << mbIdx, mbFailed, mbResult >>
       ELSE
         /\ MbResolved(Ran("rev-parse MERGE_HEAD", IF out = "ok" THEN "none" ELSE "error"),
                       "ok", NoText)

\* git commit --no-edit
MbCommit ==
  /\ UNCHANGED << notMbVars, mbCompleted >>
  /\ mbPc = "commit"
  /\ \E out \in {"ok", "error"} :
       /\ IF out = "ok"
            THEN /\ mbRepo' = [mbRepo EXCEPT !.merging = None,
                                             !.merged = @ \cup {mbRepo.merging}]
                 /\ MbResolved(Ran("commit --no-edit", out), "ok", NoText)
            ELSE /\ UNCHANGED mbRepo
                 /\ MbResolved(Ran("commit --no-edit", out), "error",
                               GitFailure("commit --no-edit", None))

\* git merge --abort; its own failure is ignored
MbAbort ==
  /\ UNCHANGED << notMbVars, mbCompleted >>
  /\ mbPc = "abort"
  /\ \E out \in {"ok", "error"} :
       /\ mbRepo' = IF out = "ok"
                      THEN [mbRepo EXCEPT !.merging = None, !.conflicts = FALSE]
                      ELSE mbRepo
       /\ MbResolved(Ran("merge --abort", out), "error", CouldNotResolve)

\* git branch -d <branch>: git deletes only a merged branch; the result is ignored
MbDelete ==
  /\ UNCHANGED << notMbVars, mbCompleted >>
  /\ mbPc = "delete"
  /\ \E out \in {"ok", "error"} :
       /\ out = "ok" => mbBranch \in mbRepo.merged /\ mbBranch \in mbRepo.present
       /\ mbLog' = Ran("branch -d", out)
       /\ mbRepo' = IF out = "ok" THEN [mbRepo EXCEPT !.present = @ \ {mbBranch}] ELSE mbRepo
       /\ MbNext(mbFailed)

NextMerge ==
  \/ MbStart
  \/ MbCheckout
  \/ MbMerge
  \/ MbConflicts
  \/ MbAgent
  \/ MbRemaining
  \/ MbInProgress
  \/ MbCommit
  \/ MbAbort
  \/ MbDelete

SpecMerge == InitMerge /\ [][NextMerge]_vars

\* ====================================== the sequential loop on a task file
\* runPrd with its default dependencies on a Markdown or YAML file: nextTask
\* and complete are the task source's own functions, the agent succeeds
\* every time, and there is no maxIterations, branch manager or pull request.
InitFile ==
  /\ srcKind \in {"markdown", "yaml"}
  /\ srcContents \in (IF srcKind = "markdown" THEN MarkdownDocuments ELSE YamlDocuments)
  /\ srcIssues = << >>
  /\ srcPrev = NoCall
  /\ srcLast = NoLast
  /\ srcOps = 0
  /\ seqOpts = [maxIterations |-> Undefined, branchPerTask |-> FALSE,
                createPr |-> FALSE, draftPr |-> FALSE]
  /\ seqPc = "start"
  /\ SeqLocals
  /\ OneIdle
  /\ BmIdle
  /\ WtIdle
  /\ MbIdle
  /\ opts = [source |-> srcKind, github |-> FALSE, prFlags |-> FALSE,
             maxParallel |-> Undefined, maxIterations |-> Undefined]
  /\ parsedTasks = << >>
  /\ ParStart

\* the open tasks of the file, in source order
OpenTasks(contents) ==
  IF srcKind = "yaml" THEN Undone(parseYamlTasks(contents))
  ELSE Undone(parseMarkdownTasks(contents))

\* getNextTask's result as runPrd reads it
AsNext(result) ==
  [status |-> result.status, text |-> result.text, source |-> srcKind,
   error |-> IF result.status = "error" THEN << "Missing task source file" >> ELSE NoText]

\* checkPrdRequirements finds the file
FileBegin ==
  /\ seqPc = "start"
  /\ SeqBegin("ok")

\* the loop is followed for one task more than a file can hold
FileNext ==
  /\ getNextTask.status = "ok" => iterations <= MaxItems
  /\ SeqNext(AsNext(getNextTask))

\* the agent succeeds at the first attempt
FileRun ==
  /\ seqPc = "run"
  /\ SeqRun(RunnerResult("ok", 1, << "R" >>, NoText, AgentUsage(0, 0, Undefined, Undefined)))

\* complete(taskText, taskSourceOptions) rewrites the file when it marked a task
FileComplete ==
  LET result == completeTask(seqTask) IN
  /\ Completed([status |-> result.status, error |-> NoText])
  /\ srcContents' = result.contents
  /\ UNCHANGED << seqOpts, srcKind, srcIssues, srcPrev, srcLast, srcOps,
                  parVars, oneVars, bmVars, wtVars, mbVars >>

NextFile ==
  \/ FileBegin
  \/ FileNext
  \/ FileRun
  \/ FileComplete

SpecFile == InitFile /\ [][NextFile]_vars

\* ================================================================= claims

Running(w) == workers[w].pc = "run"

\* C1: during a parallel run, at every moment and for every group, at most
\* one task of that group is being executed by the agent runner.
C1_MutualExclusionPerGroup ==
  \A w1, w2 \in Workers :
     (w1 # w2 /\ Running(w1) /\ Running(w2))
        => CurrentTask(w1).group # CurrentTask(w2).group

\* C1 witness: tasks of two different groups are executing at the same time.
C1_Witness ==
  \E w1, w2 \in Workers :
     /\ w1 # w2 /\ Running(w1) /\ Running(w2)
     /\ CurrentTask(w1).group # CurrentTask(w2).group

\* The worker count the specification states, written from its formula.
ClaimedWorkerCount ==
  LET groupCount == Len(groups) IN
  IF opts.maxParallel = Undefined THEN groupCount
  ELSE LET floored == CHOOSE n \in -1..(MaxGroups + MaxTasks + 2) :
                         2 * n <= opts.maxParallel /\ opts.maxParallel < 2 * (n + 1)
       IN IF floored < 1 THEN 1
          ELSE IF floored > groupCount THEN groupCount ELSE floored

GroupsExecuting == {w \in Workers : workers[w].pc \in {"create", "run", "complete"}}

\* C2: the number of groups (and so of tasks) executing at the same time never
\* exceeds workerCount = max(1, min(groupCount, floor(maxParallel))), which is
\* groupCount when maxParallel is not given; that many workers are launched.
C2_ConcurrencyBound ==
  pc = "workers" =>
     /\ Len(workers) = ClaimedWorkerCount
     /\ Cardinality(GroupsExecuting) <= ClaimedWorkerCount
     /\ (opts.maxParallel = 2 => Cardinality(GroupsExecuting) <= 1)

\* C2 witness: maxParallel is given and at least the group count, there are
\* several groups, and a task of every group is executing at once.
C2_Witness ==
  /\ pc = "workers"
  /\ opts.maxParallel # Undefined
  /\ Len(groups) >= 2
  /\ Floor2(opts.maxParallel) >= Len(groups)
  /\ Cardinality({w \in Workers : Running(w)}) = Len(groups)

\* C3: when the run reaches the final integration with at least one
\* integration branch, the last integration branch contains the branch of
\* every group that finished without failure (every entry of
\* completedBranches).
C3_LastIntegrationContainsAll ==
  pc = "mergeFinal" =>
     \A i \in 1..Len(completedBranches) :
        completedBranches[i] \in branches[integrationBranches[Len(integrationBranches)]]

\* C4: once SIGINT or SIGTERM has been received, a dirty worktree is never
\* removed with `git worktree remove --force` during the rest of the run.
C4_DirtyNeverForceRemoved == ~dirtyForceRemoved

ClaimedExitCode == IF firstSignal = "SIGINT" THEN 130 ELSE 143

\* C5: the signal handler triggers the worktree cleanup (preserveDirty: true,
\* removeBranches: false) at most once, the exit code set is 130 for SIGINT
\* and 143 for SIGTERM according to the first signal handled, and the handler
\* is deregistered whenever the run has left the worker phase.
C5_OneShotSignalCleanup ==
  /\ sigCleanupCalls <= 1
  /\ (cleanups["signal"].active =>
        cleanups["signal"].preserveDirty /\ ~cleanups["signal"].removeBranches)
  /\ (exitCode # 0 => handled /\ exitCode = ClaimedExitCode)
  /\ ((handled /\ ~cleanups["signal"].active) => exitCode = ClaimedExitCode)
  /\ (registered => pc = "workers")

\* C5 witness: a SIGTERM was handled, its cleanup ran once and set the exit
\* code, and the run left the worker phase by an exception.
C5_Witness ==
  /\ handled /\ firstSignal = "SIGTERM"
  /\ sigCleanupCalls = 1 /\ exitCode = 143
  /\ pc = "thrown" /\ ~registered

\* ------------------------------------------------------------- C6 .. C9
Reported(call) == call.op = "complete" /\ call.status \in {"updated", "already-complete"}

\* C6: once complete(t) has returned updated or already-complete, the next
\* complete(t) on the same source returns already-complete and leaves the
\* source as it was.
C6_CompleteIdempotent ==
  (Reported(srcPrev) /\ srcLast.op = "complete" /\ srcLast.title = srcPrev.title)
    => /\ srcLast.status = "already-complete"
       /\ srcContents = srcLast.before
       /\ srcIssues = srcLast.beforeIssues

\* A value with its trailing comment removed: a comment starts at a "#" that
\* begins the value or follows white space.
WithoutComment(value) ==
  LET starts == {k \in 1..Len(value) :
                   value[k] = "#" /\ (k = 1 \/ value[k - 1] \in Ws)}
  IN IF starts = {} THEN value ELSE SubSeq(value, 1, MinOf(starts) - 1)

SaysCompletedTrue(line, index) ==
  LET m == KeyValue(IF index = 0 THEN ItemContent(line) ELSE TrimStart(line)) IN
  /\ m.ok
  /\ m.key = << "completed" >>
  /\ Lower(parseYamlValue(WithoutComment(m.value))) = << "true" >>

\* The task at ref is marked completed in the source as it stands.
MarkedCompleted(ref) ==
  IF srcKind = "github"
    THEN \E k \in 1..Len(srcIssues) :
           srcIssues[k].number = ref /\ srcIssues[k].state = "CLOSED"
  ELSE IF srcKind = "yaml"
    THEN LET blocks == extractTaskBlocks(srcContents) IN
         \E b \in 1..Len(blocks) :
           /\ blocks[b].startIndex = ref
           /\ \E k \in 1..Len(blocks[b].lines) : SaysCompletedTrue(blocks[b].lines[k], k - 1)
  ELSE LET lines == SplitLines(srcContents) IN
       /\ taskLinePattern(lines[ref]).ok
       /\ taskLinePattern(lines[ref]).status \in {"x", "X"}

\* C7: next never returns a task that the source marks completed, nor the
\* task that the complete call just before it reported as updated or
\* already-complete.
C7_NextNeverCompleted ==
  (srcLast.op = "next" /\ srcLast.status = "ok")
    => /\ ~MarkedCompleted(srcLast.ref)
       /\ (Reported(srcPrev) => srcLast.ref # srcPrev.ref)

\* contents cut at every "\n", each piece keeping its "\r"
RECURSIVE RawLines(_)
RawLines(c) ==
  LET nl == {i \in 1..Len(c) : c[i] = LF} IN
  IF nl = {} THEN << c >>
  ELSE << SubSeq(c, 1, MinOf(nl) - 1) >> \o RawLines(From(c, MinOf(nl) + 1))

Unchecked(line) ==
  \E k \in 1..Len(line) - 2 : line[k] = "[" /\ line[k + 1] = SP /\ line[k + 2] = "]"

\* The line with its first "[ ]" made "[x]" and nothing else touched.
Checked(line) ==
  LET k == MinOf({i \in 1..Len(line) - 2 :
                    line[i] = "[" /\ line[i + 1] = SP /\ line[i + 2] = "]"})
  IN [line EXCEPT ![k + 1] = "x"]

\* C8: a Markdown complete that returns updated changes "[ ]" to "[x]" on
\* one line and keeps every other byte, line endings included; any other
\* status leaves the contents alone.
C8_MarkdownOnlyMatchedLine ==
  (srcKind = "markdown" /\ srcLast.op = "complete")
    => IF srcLast.status = "updated"
         THEN LET in == RawLines(srcLast.before) IN
              \E i \in 1..Len(in) :
                /\ Unchecked(in[i])
                /\ RawLines(srcContents) = [in EXCEPT ![i] = Checked(in[i])]
         ELSE srcContents = srcLast.before

IsProperty(line, key) ==
  \/ KeyValue(TrimStart(line)).ok /\ KeyValue(TrimStart(line)).key = << key >>
  \/ KeyValue(ItemContent(line)).ok /\ KeyValue(ItemContent(line)).key = << key >>

\* The completed line with its value made true: what precedes the value and
\* what follows it (white space, trailing comment) stay.
ValueMadeTrue(line) ==
  LET p == MinOf({i \in 1..Len(line) : line[i] = "completed"})
      colon == MinOf({i \in p..Len(line) : line[i] = ":"})
      start == colon + LeadIn(From(line, colon + 1), Ws) + 1
      value == TrimEnd(WithoutComment(From(line, start)))
  IN SubSeq(line, 1, start - 1) \o << "true" >> \o From(line, start + Len(value))

\* C9: a YAML complete that returns updated either makes the value of one
\* completed line true, keeping the rest of that line and every other line,
\* or inserts one "completed: true" line right after a title line.
C9_YamlOnlyCompletedValue ==
  (srcKind = "yaml" /\ srcLast.op = "complete" /\ srcLast.status = "updated")
    => LET in == SplitLines(srcLast.before)
           out == SplitLines(srcContents)
       IN
       \/ \E i \in 1..Len(in) :
            /\ IsProperty(in[i], "completed")
            /\ out = [in EXCEPT ![i] = ValueMadeTrue(in[i])]
       \/ \E i \in 1..Len(in) :
            /\ IsProperty(in[i], "title")
            /\ Len(out) = Len(in) + 1
            /\ TrimStart(out[i + 1]) = << "completed", ":", SP, "true" >>
            /\ out = InsertLine(in, i + 1, out[i + 1])


\* C10: runPrd never throws; every failure is converted into a structured
\* result.
C10_RunPrdNeverThrows == outcome.status # "thrown"

Returned == singlePc = "done"

Invoked == Len(invocations)

\* C12: one runSingleTask call invokes the agent at most maxRetries times (3
\* when maxRetries is not given) and never in a dry run; the attempts of an ok
\* or error result is the number of invocations made and is at most
\* maxRetries; what is returned is one of ok, error, dry-run.
C12_RetryBound ==
  /\ request.dryRun => Invoked = 0
  /\ Returned =>
       /\ Whole(Invoked) <= OrDefault(request.maxRetries, Whole(3))
       /\ singleResponse.status \in {"ok", "error", "dry-run"}
       /\ singleResponse.status \in {"ok", "error"} =>
            /\ singleResponse.attempts = Invoked
            /\ Whole(singleResponse.attempts) <= OrDefault(request.maxRetries, Whole(3))

HasErrorEvent(out) == \E i \in 1..Len(out.stdout) : out.stdout[i].type = "error"

FirstErrorEvent(out) ==
  out.stdout[MinOf({i \in 1..Len(out.stdout) : out.stdout[i].type = "error"})]

ResponseOf(out) ==
  IF HasErrorEvent(out) THEN NoText
  ELSE parseAgentOutput(ensureEngine(request.engine), out.stdout).response

Successful(out) ==
  /\ ~HasErrorEvent(out)
  /\ out.exitCode = 0
  /\ ResponseOf(out) # NoText

AgentReported(event) ==
  IF event.errorMessage # NoText THEN event.errorMessage
  ELSE IF event.message # NoText THEN event.message
  ELSE << "Agent error" >>

ClaimedError(out) ==
  IF HasErrorEvent(out) THEN AgentReported(FirstErrorEvent(out))
  ELSE IF out.exitCode # 0
    THEN << "Agent exited with code ", ToString(out.exitCode) >>
  ELSE << "Empty response from agent" >>

\* C13: an attempt succeeds exactly when its output has no error event, its
\* exit code is 0 and its trimmed response is not empty; the call returns ok
\* at the first such attempt and invokes the agent no more; a failed attempt
\* records the agent's message when there is an error event, else the exit
\* code message when the code is not 0, else the empty-response message.
C13_AttemptClassification ==
  \A i \in 1..Invoked :
     /\ Successful(invocations[i].output) <=> invocations[i].error = NoText
     /\ Successful(invocations[i].output) =>
          /\ i = Invoked
          /\ Returned
          /\ singleResponse.status = "ok"
          /\ singleResponse.attempts = i
          /\ singleResponse.response = ResponseOf(invocations[i].output)
     /\ ~Successful(invocations[i].output) =>
          /\ invocations[i].error = ClaimedError(invocations[i].output)
          /\ (i = Invoked => lastError = ClaimedError(invocations[i].output))
          /\ (i = Invoked /\ Returned => singleResponse.status = "error")

C13_Witness ==
  /\ Returned
  /\ Invoked = 2
  /\ HasErrorEvent(invocations[1].output)
  /\ invocations[1].output.exitCode = 0
  /\ \E k \in 1..Len(invocations[1].output.stdout) :
        invocations[1].output.stdout[k].type = "result"
  /\ invocations[1].error = << "E1" >>
  /\ Successful(invocations[2].output)
  /\ singleResponse.status = "ok"

AllAttemptsFailed ==
  /\ Invoked >= 1
  /\ Whole(Invoked) = OrDefault(request.maxRetries, Whole(3))
  /\ \A i \in 1..Invoked : ~Successful(invocations[i].output)

\* C14: when maxRetries (at least 1) attempts were made and all of them
\* failed, the call returns error with attempts = maxRetries and the error
\* message, stdout, stderr and exit code of the last attempt; retryDelay
\* seconds are waited between two consecutive attempts and none after the
\* last one.
C14_ExhaustedCarriesLast ==
  /\ AllAttemptsFailed => singlePc \in {"loop", "done"}
  /\ (AllAttemptsFailed /\ Returned) =>
       /\ singleResponse.status = "error"
       /\ Whole(singleResponse.attempts) = OrDefault(request.maxRetries, Whole(3))
       /\ singleResponse.error = ClaimedError(invocations[Invoked].output)
       /\ singleResponse.stdout = invocations[Invoked].output.stdout
       /\ singleResponse.stderr = invocations[Invoked].output.stderr
       /\ singleResponse.exitCode = invocations[Invoked].output.exitCode
       /\ Len(delays) = Invoked - 1
       /\ \A k \in 1..Len(delays) : delays[k] = OrDefault(request.retryDelay, 5)
  /\ (Invoked >= 1 /\ singlePc = "loop"
        /\ Whole(Invoked) < OrDefault(request.maxRetries, Whole(3))) => Len(delays) = Invoked
  /\ (Invoked >= 1 /\ Returned) => Len(delays) = Invoked - 1

C14_Witness ==
  /\ AllAttemptsFailed
  /\ Returned
  /\ Invoked = 2
  /\ invocations[1].output.exitCode # invocations[2].output.exitCode
  /\ invocations[1].output.stderr # invocations[2].output.stderr
  /\ invocations[1].error # invocations[2].error
  /\ delays = << 2 >>

SeqDone == seqPc = "done"

CallsOf(ops) == {i \in 1..Len(calls) : calls[i].op \in ops}

CountOf(op) == Cardinality(CallsOf({op}))

\* C11: in branch-per-task mode, once prepare has been called, cleanup is
\* called exactly once before runPrd returns or throws, whatever the exit
\* path, an exception of prepare included.
C11_CleanupOnEveryExit ==
  /\ CountOf("cleanup") <= 1
  /\ (SeqDone /\ CountOf("prepare") > 0) => CountOf("cleanup") = 1

ClaimedLimit == Max(0, seqOpts.maxIterations)

\* C15: with maxIterations given, a sequential run calls the runner at most
\* max(0, maxIterations) times and iterations never exceeds the limit; with
\* the limit 0 and the pre-flight passing it returns {ok, 0 iterations, 0
\* completed, max-iterations, no tasks, zero usage} and calls nothing else;
\* after the maxIterations-th successful task it does not call next again.
C15_IterationBound ==
  seqOpts.maxIterations # Undefined =>
    /\ Whole(CountOf("runner")) <= ClaimedLimit
    /\ Whole(iterations) <= ClaimedLimit
    /\ Whole(CountOf("next")) <= ClaimedLimit
    /\ (ClaimedLimit = 0 /\ SeqDone /\ calls[1].status = "ok") =>
         /\ Len(calls) = 1
         /\ seqOutcome = [status |-> "ok", stage |-> None, message |-> NoText,
                          task |-> NoText, failures |-> FALSE,
                          stopped |-> "max-iterations", iterations |-> 0,
                          completed |-> 0, tasks |-> << >>,
                          usage |-> createUsageTotals]

StageFailure(c) ==
  \/ c.op = "next" /\ c.status = "error"
  \/ c.op = "runner" /\ c.status \in {"error", "dry-run"}
  \/ c.op = "complete" /\ c.status \in {"not-found", "error"}
  \/ c.op = "pr" /\ c.status = "thrown"

Stages == {"next", "runner", "complete", "pr"}

RECURSIVE RecordsOf(_)
RecordsOf(log) ==
  IF log = << >> THEN << >>
  ELSE LET c == Head(log) IN
       (IF c.op = "runner" /\ c.status = "ok"
          THEN << [task |-> c.task, source |-> "markdown", status |-> "completed",
                   attempts |-> c.value.attempts, response |-> c.value.response,
                   error |-> NoText] >>
        ELSE IF c.op = "runner" /\ c.status = "error"
          THEN << [task |-> c.task, source |-> "markdown", status |-> "failed",
                   attempts |-> c.value.attempts, response |-> NoText,
                   error |-> c.value.error] >>
        ELSE IF c.op = "runner" /\ c.status = "dry-run"
          THEN << [task |-> c.task, source |-> "markdown", status |-> "failed",
                   attempts |-> 0, response |-> NoText,
                   error |-> << "Dry run not supported for PRD execution" >>] >>
        ELSE << >>) \o RecordsOf(Tail(log))

RECURSIVE InputTokensOf(_)
InputTokensOf(log) ==
  IF log = << >> THEN 0
  ELSE (IF Head(log).op = "runner" /\ Head(log).status = "ok"
          THEN Head(log).value.usage.inputTokens ELSE 0) + InputTokensOf(Tail(log))

RECURSIVE OutputTokensOf(_)
OutputTokensOf(log) ==
  IF log = << >> THEN 0
  ELSE (IF Head(log).op = "runner" /\ Head(log).status = "ok"
          THEN Head(log).value.usage.outputTokens ELSE 0) + OutputTokensOf(Tail(log))

\* C16: a sequential run stops at the first stage error (next returns error,
\* the runner returns error or dry-run, complete returns not-found or error,
\* PR creation throws): no next, runner, complete or PR call follows it, and
\* the result carries the iterations, run records and usage totals
\* accumulated up to then.
C16_StopsAtFirstStageError ==
  \A i \in 1..Len(calls) :
     StageFailure(calls[i]) =>
       /\ \A j \in (i + 1)..Len(calls) : calls[j].op \notin Stages
       /\ (SeqDone /\ seqOutcome.status # "thrown") =>
            /\ seqOutcome.status = "error"
            /\ seqOutcome.iterations = CountOf("runner")
            /\ seqOutcome.iterations =
                 Cardinality({k \in CallsOf({"next"}) : calls[k].status = "ok"})
            /\ seqOutcome.tasks = RecordsOf(calls)
            /\ seqOutcome.usage.inputTokens = InputTokensOf(calls)
            /\ seqOutcome.usage.outputTokens = OutputTokensOf(calls)

C16_Witness ==
  /\ SeqDone
  /\ seqOutcome.status = "error"
  /\ seqOutcome.stage = "complete"
  /\ seqOutcome.iterations = 2
  /\ Len(seqOutcome.tasks) = 2
  /\ seqOutcome.usage.inputTokens = 2
  /\ seqOpts.createPr
  /\ CountOf("pr") = 1

LastStageCall == calls[CHOOSE i \in CallsOf(Stages) : \A j \in CallsOf(Stages) : j <= i]

ClaimedStage(c) ==
  IF c.op = "next" THEN "task-source"
  ELSE IF c.op = "runner" THEN "agent"
  ELSE IF c.op = "complete" THEN "complete"
  ELSE "pr"

LastRecord == seqOutcome.tasks[Len(seqOutcome.tasks)]

\* C17: a stage-error result names the stage of the operation that failed:
\* task-source for next, agent for the runner (a dry-run with the message
\* `Dry run not supported for PRD execution`, attempts 0 and a failed run
\* record), complete for complete (not-found with the message `Task not found
\* in source`), pr for a PR creation that threw.
C17_StageNamesFailedOperation ==
  (SeqDone /\ seqOutcome.status = "error" /\ ~seqOutcome.failures) =>
    /\ CallsOf(Stages) # {}
    /\ StageFailure(LastStageCall)
    /\ seqOutcome.stage = ClaimedStage(LastStageCall)
    /\ LastStageCall.op = "runner" =>
         /\ LastRecord.status = "failed"
         /\ LastRecord.task = LastStageCall.task
         /\ LastRecord.error = seqOutcome.message
         /\ LastStageCall.status = "dry-run" =>
              /\ seqOutcome.message = << "Dry run not supported for PRD execution" >>
              /\ LastRecord.attempts = 0
         /\ LastStageCall.status = "error" =>
              /\ seqOutcome.message = LastStageCall.value.error
              /\ LastRecord.attempts = LastStageCall.value.attempts
    /\ (LastStageCall.op = "complete" /\ LastStageCall.status = "not-found") =>
         seqOutcome.message = << "Task not found in source" >>

C17_Witness ==
  /\ SeqDone
  /\ seqOutcome.status = "error"
  /\ seqOutcome.stage = "agent"
  /\ LastStageCall.status = "dry-run"
  /\ Len(seqOutcome.tasks) = 2

PrWanted == seqOpts.createPr \/ seqOpts.draftPr

LastBefore(i, op) == CHOOSE k \in CallsOf({op}) : k < i /\ \A j \in CallsOf({op}) : j < i => j <= k

HeadBranchFor(i) ==
  IF seqOpts.branchPerTask THEN calls[LastBefore(i, "checkout")].value ELSE None

\* C18: with createPr or draftPr, the PR helper is called exactly once for
\* each task whose agent run succeeded and whose complete() returned updated
\* or already-complete, right after that complete() call and with the branch
\* checkoutForTask returned for the task as headBranch (none without
\* branch-per-task); it is never called otherwise, and a PR failure ends the
\* run with stage pr, the task staying completed.
C18_PrOncePerCompletedTask ==
  /\ \A i \in CallsOf({"pr"}) :
        /\ PrWanted
        /\ i > 1
        /\ calls[i - 1].op = "complete"
        /\ calls[i - 1].status \in {"updated", "already-complete"}
        /\ calls[i - 1].task = calls[i].task
        /\ calls[LastBefore(i, "runner")].status = "ok"
        /\ calls[LastBefore(i, "runner")].task = calls[i].task
        /\ calls[i].value = HeadBranchFor(i)
        /\ calls[i].status = "thrown" =>
             /\ \A j \in (i + 1)..Len(calls) : calls[j].op = "cleanup"
             /\ (SeqDone /\ seqOutcome.status # "thrown") =>
                  /\ seqOutcome.status = "error"
                  /\ seqOutcome.stage = "pr"
                  /\ seqOutcome.task = calls[i].task
  /\ \A i \in CallsOf({"complete"}) :
        (PrWanted /\ calls[i].status \in {"updated", "already-complete"}) =>
          IF i = Len(calls) THEN seqPc = "pr" ELSE calls[i + 1].op = "pr"

C18_Witness ==
  /\ SeqDone
  /\ seqOpts.branchPerTask
  /\ CountOf("pr") = 2
  /\ \E i, j \in CallsOf({"pr"}) :
        /\ i < j
        /\ calls[i].value # calls[j].value
        /\ calls[i].status = "ok"
        /\ calls[j].status = "thrown"
  /\ seqOutcome.status = "error"

Issued(cmd) == {i \in 1..Len(gitLog) : gitLog[i].cmd = cmd}

ConfiguredOrOriginal ==
  IF configuredBase.given /\ Trim(configuredBase.text) # NoText
    THEN Named(Trim(configuredBase.text))
    ELSE gitBefore.head

\* C19: over prepare, n times (checkoutForTask, finishTask), cleanup with git
\* succeeding throughout: the branch checked out after cleanup is the one
\* checked out before prepare; a stash is pushed at prepare iff the working
\* tree was dirty, and popped exactly once, at cleanup, iff it was pushed;
\* after every finishTask the checked-out branch is the base branch (the
\* configured one, else the original).
C19_ManagerRestores ==
  /\ managerPc = "done" => gitHead = gitBefore.head
  /\ managerPc \in {"ready", "task", "done"} =>
       /\ Cardinality(Issued("stash push")) = (IF gitBefore.dirty THEN 1 ELSE 0)
       /\ \A i \in Issued("stash push") : gitLog[i].by = "prepare"
  /\ \A i \in Issued("stash pop") : gitLog[i].by = "cleanup"
  /\ managerPc = "done" =>
       /\ Cardinality(Issued("stash pop")) = Cardinality(Issued("stash push"))
       /\ gitStash = gitBefore.stash
  /\ (managerPc = "ready" /\ TaskRounds >= 1) => gitHead = ConfiguredOrOriginal

C19_Witness ==
  /\ managerPc = "done"
  /\ gitBefore.dirty
  /\ gitBefore.head = MainBranch
  /\ gitBefore.stash # << >>
  /\ managerBase = DevBranch
  /\ TaskRounds = 2
  /\ Cardinality(Issued("stash pop")) = 1
  /\ [kind |-> "task", slug |-> << "x" >>, n |-> 3] \in gitBranches

\* C20: the tasks array a parallel run returns holds exactly one run record
\* for each task the runner was called for, in strictly increasing source
\* index, whatever the order in which the groups completed.
C20_RecordsInSourceOrder ==
  (pc = "returned" /\ "tasks" \in DOMAIN outcome) =>
    /\ \A i, j \in 1..Len(outcome.tasks) :
          i < j => outcome.tasks[i].index < outcome.tasks[j].index
    /\ {outcome.tasks[i].index : i \in 1..Len(outcome.tasks)} = attempted

C20_Witness ==
  /\ pc = "returned"
  /\ "tasks" \in DOMAIN outcome
  /\ Len(outcome.tasks) = 2
  /\ Len(results) = 2
  /\ results[1].tasks[1].index > results[2].tasks[1].index

InSourceOrder(tasks) ==
  \A i, j \in 1..Len(tasks) : i < j => tasks[i].index < tasks[j].index

LastIntegration == integrationBranches[Len(integrationBranches)]

BaseHolds(branch) == branches[branch] \subseteq branches[originalBaseBranch]

FailedGroups == {i \in 1..Len(results) : results[i].failure.stage # None}

FirstFailed == results[CHOOSE i \in FailedGroups : \A j \in FailedGroups : i <= j]

Merging == pc \in {"merge", "mergeFinal", "mergeDirect"}

\* C22: when a group of a parallel run ended with a failure, the run, once
\* all workers have drained, returns {error} with the stage (agent or
\* complete), message and task of the first failed group in completion order
\* and the run records of all groups in source order, and merges nothing into
\* the original base branch.
C22_FirstGroupFailureReported ==
  FailedGroups # {} =>
    /\ ~Merging
    /\ branches[originalBaseBranch] = {}
    /\ pc = "returned" =>
         /\ \A w \in Workers : workers[w].pc = "done"
         /\ outcome.status = "error"
         /\ outcome.stage = FirstFailed.failure.stage
         /\ outcome.stage \in {"agent", "complete"}
         /\ outcome.message = FirstFailed.failure.message
         /\ outcome.task = FirstFailed.failure.index
         /\ InSourceOrder(outcome.tasks)
         /\ {outcome.tasks[i].index : i \in 1..Len(outcome.tasks)} = attempted
         /\ Len(outcome.tasks) = Cardinality(attempted)

C22_Witness ==
  /\ pc = "returned"
  /\ Cardinality(FailedGroups) = 2
  /\ results[1].failure.stage = "complete"
  /\ results[2].failure.stage = "agent"
  /\ results[1].failure.index > results[2].failure.index
  /\ outcome.stage = "complete"

NothingStarted ==
  /\ workers = << >>
  /\ created = << >>
  /\ attempted = {}
  /\ branches = (MainBranch :> {})
  /\ seqPc = "idle" /\ calls = << >>
  /\ managerPc = "idle" /\ gitLog = << >>

IssuedBy(k) == LET Mine(e) == e.by = k IN SelectSeq(wtLog, Mine)

RemovedBy(k) ==
  LET Removal(e) == e.by = k /\ e.cmd = "worktree remove --force"
  IN SelectSeq(wtLog, Removal)

BranchesOf(records) == {records[i].branch : i \in 1..Len(records)}

\* Cleanup call k kept exactly the records it found dirty (or unreadable), and
\* issued nothing but the status query for them.
KeepsDirty(k) ==
  LET issued == IssuedBy(k)
      FoundDirty(e) == e.cmd = "status --porcelain" /\ e.flag
      found == SelectSeq(issued, FoundDirty)
  IN /\ \A i \in 1..Len(issued) :
          issued[i].cmd = "status --porcelain" =>
            IF issued[i].flag
              THEN i < Len(issued) => issued[i + 1].cmd = "status --porcelain"
              ELSE /\ i < Len(issued)
                   /\ issued[i + 1].cmd = "worktree remove --force"
                   /\ issued[i + 1].branch = issued[i].branch
     /\ Len(wtPasses[k].kept) = Len(found)
     /\ \A i \in 1..Len(found) : wtPasses[k].kept[i].branch = found[i].branch

\* C24: cleanup({preserveDirty: true}) issues neither `git worktree remove` nor
\* `git branch -D` for a recorded worktree whose status is non-empty or cannot
\* be read, and keeps its record; the records of the worktrees it removes are
\* dropped; a later cleanup without preserveDirty removes exactly the worktrees
\* that were retained.
C24_PreserveDirtyKeepsRecords ==
  /\ [](\A k \in 1..Len(wtPasses) :
          /\ wtPasses[k].preserveDirty => KeepsDirty(k)
          /\ ~wtPasses[k].preserveDirty =>
               /\ wtPasses[k].kept = << >>
               /\ Len(RemovedBy(k)) = Len(wtPasses[k].seen)
          /\ (/\ k > 1
              /\ wtPasses[k - 1].preserveDirty
              /\ ~wtPasses[k].preserveDirty
              /\ wtPasses[k].seen = wtPasses[k - 1].kept) =>
               /\ Len(RemovedBy(k)) = Len(wtPasses[k - 1].kept)
               /\ BranchesOf(RemovedBy(k)) = BranchesOf(wtPasses[k - 1].kept))
  /\ [][wtPasses' # wtPasses =>
          wtCreated' = wtPasses'[Len(wtPasses')].kept]_vars

C24_Witness ==
  /\ Len(wtPasses) = 2
  /\ wtPasses[1].preserveDirty
  /\ Len(wtPasses[1].seen) = 2
  /\ Len(wtPasses[1].kept) = 1
  /\ ~wtPasses[2].preserveDirty
  /\ wtPasses[2].seen = wtPasses[1].kept
  /\ Len(RemovedBy(2)) = 1
  /\ wtCreated = << >>

\* C26: every branch name createWorktree produces is absent from the branch
\* list when `git worktree add -b` runs with it, also when several
\* createWorktree calls are in flight for groups whose slugs coincide.
C26_NameAbsentWhenCreated ==
  \A i \in 1..Len(wtLog) :
    wtLog[i].cmd = "worktree add -b" => ~wtLog[i].flag

\* ------------------------------------------------- runs of either kind
\* A run is a sequential one or a parallel one.
InitRuns == InitSeq \/ InitPar

NextRuns ==
  \/ seqPc # "idle" /\ NextSeq
  \/ seqPc = "idle" /\ Next

SpecRuns == InitRuns /\ [][NextRuns]_vars

\* The usages of the tasks a sequential run executed successfully.
RECURSIVE SeqUsages(_)
SeqUsages(log) ==
  IF log = << >> THEN << >>
  ELSE (IF Head(log).op = "runner" /\ Head(log).status = "ok"
          THEN << Head(log).value.usage >> ELSE << >>) \o SeqUsages(Tail(log))

\* The usages of the tasks a parallel run executed successfully.
RECURSIVE ParUsages(_)
ParUsages(records) ==
  IF records = << >> THEN << >>
  ELSE (IF Head(records).status = "completed"
          THEN << ReportedUsage(Head(records).index) >> ELSE << >>)
         \o ParUsages(Tail(records))

RECURSIVE TotalOf(_)
TotalOf(numbers) == IF numbers = << >> THEN 0 ELSE Head(numbers) + TotalOf(Tail(numbers))

Present(numbers) == LET IsReported(n) == n # Undefined IN SelectSeq(numbers, IsReported)

SumOfReported(numbers) ==
  IF Present(numbers) = << >> THEN Undefined ELSE TotalOf(Present(numbers))

IsSumOf(totals, usages) ==
  /\ totals.inputTokens = TotalOf([i \in 1..Len(usages) |-> usages[i].inputTokens])
  /\ totals.outputTokens = TotalOf([i \in 1..Len(usages) |-> usages[i].outputTokens])
  /\ totals.cost = SumOfReported([i \in 1..Len(usages) |-> usages[i].cost])
  /\ totals.durationMs = SumOfReported([i \in 1..Len(usages) |-> usages[i].durationMs])

\* C25: the usage totals of a run are the field-wise sum of the usages of its
\* successfully executed tasks: inputTokens and outputTokens always present (0
\* when none succeeded), cost and durationMs absent iff no successful task
\* reported them and else the sum over the tasks that did; failed tasks add
\* nothing.  In sequential runs and, across groups, in parallel runs.
C25_UsageIsSumOverSuccessful ==
  /\ (SeqDone /\ seqOutcome.status # "thrown") =>
        IsSumOf(seqOutcome.usage, SeqUsages(calls))
  /\ (pc = "returned" /\ "usage" \in DOMAIN outcome) =>
        IsSumOf(outcome.usage, ParUsages(outcome.tasks))

\* a sequential run whose two successful tasks both report a cost and only
\* one a duration
C25_Witness ==
  /\ SeqDone
  /\ seqOutcome.status = "ok"
  /\ Len(SeqUsages(calls)) = 2
  /\ seqOutcome.usage.cost = 7
  /\ seqOutcome.usage.durationMs = 5
  /\ seqOutcome.usage.inputTokens = 2

\* a parallel run over two groups, one task successful in each, that fails
\* on a later step
C25_WitnessParallel ==
  /\ pc = "returned"
  /\ "usage" \in DOMAIN outcome
  /\ Len(results) = 2
  /\ outcome.usage.cost = 7
  /\ outcome.usage.durationMs = 5

\* A promotion whose `git merge --no-edit` fails leaves no merge in progress,
\* HEAD where it was before the promotion, no integration branch of its own,
\* and the current base as it was.
PromotionRolledBack ==
  [][\A w \in Workers :
       (/\ workers[w].pc = "mgMerge"
        /\ workers'[w].pc # "mgMerge"
        /\ integrationBranches' = integrationBranches) =>
          /\ ~merging'
          /\ head' = originalBaseBranch
          /\ workers[w].integration \notin DOMAIN branches'
          /\ baseBranch' = baseBranch
          /\ completedBranches' = completedBranches]_vars

\* C27: when a merge fails during a group's promotion, the merge is aborted,
\* the prior HEAD is restored, the integration branch is deleted, the current
\* base is unchanged, and the merge error is surfaced: the run's result is
\* {error, stage: merge}.
C27_PromotionFailureSurfaced ==
  (pc = "returned" /\ observed.failedPromotions # {}) =>
     /\ outcome.status = "error"
     /\ outcome.stage = "merge"

InSerialBody == {"mgBranch", "mgCheckout", "mgMerge"}

Executing == {w \in Workers : workers[w].pc \in InSerialBody}

\* The scheduler's shared state is written in this step.
SharedWritten ==
  \/ results' # results
  \/ completedBranches' # completedBranches
  \/ integrationBranches' # integrationBranches
  \/ baseBranch' # baseBranch

\* The step belongs to the body at the head of the serial queue.
SerialStep ==
  /\ serialChain # << >>
  /\ workers[Head(serialChain)].pc \in InSerialBody \cup {"queued"}
  /\ workers'[Head(serialChain)] # workers[Head(serialChain)]

\* C28: results, completedBranches, integrationBranches and the current base
\* are written only inside the serial queue (after their initialisation
\* before the workers start); at most one serial body executes at a time;
\* bodies run in the order in which the groups completed; a body that fails
\* does not keep later bodies from running.
C28_SerialQueue ==
  /\ [](/\ Cardinality(Executing) <= 1
        /\ \A w \in Executing : serialChain # << >> /\ Head(serialChain) = w
        /\ \A i \in 1..Len(serialChain) :
             /\ workers[serialChain[i]].pc \in InSerialBody \cup {"queued"}
             /\ i > 1 => workers[serialChain[i]].pc = "queued"
        /\ Len(results) <= Len(observed.submitted)
        /\ \A i \in 1..Len(results) : results[i].group = observed.submitted[i])
  /\ [][SharedWritten => (pc = "parallel" \/ SerialStep)]_vars

\* two bodies have run in completion order, the first of them failed with an
\* exception, and a third group has completed meanwhile
C28_Witness ==
  /\ Len(results) = 2
  /\ Len(observed.submitted) = 2
  /\ results[1].group = observed.submitted[1]
  /\ results[1].group > results[2].group
  /\ \E w \in Workers : workers[w].pc = "thrown" /\ workers[w].result = results[1]

\* The last integration branch recorded, else the original base.
LatestBase ==
  IF integrationBranches = << >> THEN originalBaseBranch
  ELSE integrationBranches[Len(integrationBranches)]

\* Worker w dequeues a group in this step.
Dequeues(w) ==
  /\ w \in DOMAIN workers'
  /\ workers'[w].pc = "create"
  /\ (w \in DOMAIN workers => workers[w].pc # "create")

\* C29: the current base only advances.  The n-th integration branch is
\* created from the (n-1)-th (from the original base for n = 1), in completion
\* order; the base becomes that branch only after all of the group's branches
\* were merged into it, and never takes an earlier value again; a group's
\* worktree is created from the value the base had when the group was
\* dequeued.
C29_BaseOnlyAdvances ==
  /\ [](pc \in {"workers", "finalCleanup", "finalCleanupThrow", "aggregate"} =>
          /\ baseBranch = LatestBase
          /\ originalBaseBranch \notin SeqToSet(integrationBranches)
          /\ \A i, j \in 1..Len(integrationBranches) :
               i < j => /\ integrationBranches[i] # integrationBranches[j]
                        /\ integrationBranches[j] \in DOMAIN branches =>
                             /\ integrationBranches[i] \in DOMAIN branches
                             /\ branches[integrationBranches[i]]
                                  \subseteq branches[integrationBranches[j]])
  /\ [][\A w \in DOMAIN workers' :
          /\ Dequeues(w) => workers'[w].base = baseBranch'
          /\ (w \in DOMAIN workers /\ workers[w].pc = "create" /\ workers'[w].pc = "run") =>
               /\ workers'[w].rec.branch \notin DOMAIN branches
               /\ branches'[workers'[w].rec.branch] =
                    branches[workers[w].base] \cup {workers'[w].rec.branch}
          /\ (w \in DOMAIN workers /\ workers[w].pc = "mgBranch"
                /\ workers'[w].pc = "mgCheckout") =>
               /\ workers'[w].integration \notin DOMAIN branches
               /\ branches'[workers'[w].integration] = branches[LatestBase]
          /\ (w \in DOMAIN workers /\ workers[w].pc = "mgMerge"
                /\ baseBranch' # baseBranch) =>
               /\ baseBranch' = workers[w].integration
               /\ integrationBranches' = Append(integrationBranches, baseBranch')
               /\ SeqToSet(workers[w].result.branches) \subseteq branches'[baseBranch']
               /\ branches[baseBranch] \subseteq branches'[baseBranch']
               /\ branches'[baseBranch'] # branches[baseBranch]]_vars
  /\ [][(pc = "workers" /\ baseBranch' # baseBranch) =>
          \E w \in Workers : workers[w].pc = "mgMerge" /\ workers'[w].pc = "loop"]_vars

\* the base has advanced twice, and a group was dequeued after the first
\* advance and got its worktree from the first integration branch
C29_Witness ==
  /\ Len(integrationBranches) = 2
  /\ baseBranch = integrationBranches[2]
  /\ \E w \in Workers :
       /\ workers[w].base = integrationBranches[1]
       /\ workers[w].rec.branch \in DOMAIN branches
       /\ branches[integrationBranches[1]] \subseteq branches[workers[w].rec.branch]

GroupKeys == {groups[i].group : i \in 1..Len(groups)}

TimesOf(counts, key) == IF key \in DOMAIN counts THEN counts[key] ELSE 0

ResultsOf(key) == Cardinality({i \in 1..Len(results) : results[i].group = key})

\* No worker is running and no serial body is pending.
WorkersOver ==
  /\ workers # << >>
  /\ \A w \in Workers : workers[w].pc \in {"done", "thrown"}
  /\ serialChain = << >>

\* No group is dequeued twice or gets two worktrees, and in a run that returns
\* (no call threw) every worker has ended with the queue empty, every group
\* was dequeued once, got one createWorktree call and one recorded result, and
\* the scheduler called its own cleanup once.
GroupsOnceWithoutThrow ==
  /\ \A g \in GroupKeys :
       /\ TimesOf(observed.dequeues, g) <= 1
       /\ TimesOf(observed.creates, g) <= TimesOf(observed.dequeues, g)
       /\ ResultsOf(g) <= TimesOf(observed.creates, g)
  /\ observed.finalCleanups <= 1
  /\ (pc \in {"aggregate", "merge", "mergeDirect", "mergeFinal"}
        \/ (pc = "returned" /\ workers # << >>)) =>
       /\ AllDone
       /\ queue = << >>
       /\ serialChain = << >>
       /\ observed.finalCleanups = 1
       /\ \A g \in GroupKeys :
            /\ TimesOf(observed.dequeues, g) = 1
            /\ TimesOf(observed.creates, g) = 1
            /\ ResultsOf(g) = 1

\* C30: every group of the partition is dequeued by exactly one worker and
\* executed exactly once, in exactly one worktree of its own: k groups give
\* exactly k createWorktree calls, whatever way the workers ended.
C30_EveryGroupExactlyOnce ==
  (pc \in {"returned", "thrown"} /\ WorkersOver) =>
     \A g \in GroupKeys :
        /\ TimesOf(observed.dequeues, g) = 1
        /\ TimesOf(observed.creates, g) = 1

\* ------------------------------------------------------------- C31 .. C33
\* the run records a worker holds for the first n tasks of its group
DoneBefore(w, n) ==
  /\ Len(workers[w].result.tasks) >= n
  /\ \A k \in 1..n :
       /\ workers[w].result.tasks[k] =
            [index |-> workers[w].group.tasks[k].index, status |-> "completed"]
       /\ workers[w].group.tasks[k].index \in attempted

\* complete() was called for the first n tasks of the group and returned
\* updated or already-complete
MarkedBefore(w, n) ==
  \A k \in 1..n : workers[w].group.tasks[k].index \notin observed.unmarked

\* C31: within one group the tasks are started in their source order; the
\* runner is in flight for task k+1 only when the agent run of every earlier
\* task of the group succeeded and its complete() returned updated or
\* already-complete; once a task of the group has failed (agent or
\* completion) no task of that group is running or started again.
C31_GroupTasksInOrder ==
  /\ [](\A w \in Workers :
          /\ \A k \in 1..(Len(workers[w].group.tasks) - 1) :
               workers[w].group.tasks[k].index < workers[w].group.tasks[k + 1].index
          /\ workers[w].pc = "run" =>
               /\ workers[w].result.failure = NoFailure
               /\ Len(workers[w].result.tasks) = workers[w].pos - 1
               /\ DoneBefore(w, workers[w].pos - 1)
               /\ MarkedBefore(w, workers[w].pos - 1)
          /\ workers[w].pc = "complete" =>
               /\ workers[w].result.failure = NoFailure
               /\ Len(workers[w].result.tasks) = workers[w].pos
               /\ DoneBefore(w, workers[w].pos)
               /\ MarkedBefore(w, workers[w].pos - 1)
          /\ workers[w].result.failure # NoFailure =>
               /\ workers[w].pc \notin {"create", "run", "complete"}
               /\ workers[w].result.tasks[Len(workers[w].result.tasks)].index
                    = workers[w].result.failure.index
               /\ \A i \in attempted :
                    \A k \in 1..Len(workers[w].group.tasks) :
                       workers[w].group.tasks[k].index = i => k <= workers[w].pos)
  /\ [][\A w \in Workers :
          (w \in DOMAIN workers' /\ workers'[w].pc = "run" /\ workers'[w] # workers[w]) =>
             \/ workers[w].pc = "create" /\ workers'[w].pos = 1
             \/ /\ workers[w].pc = "complete"
                /\ workers'[w].group = workers[w].group
                /\ workers'[w].pos = workers[w].pos + 1]_vars

\* The runner is in flight for the second task of a group.
C31_Witness ==
  \E w \in Workers :
     /\ workers[w].pc = "run"
     /\ workers[w].pos = 2
     /\ workers[w].result.tasks # << >>

\* A group has ended with a failed completion before its last task.
C31_WitnessFailed ==
  \E w \in Workers :
     /\ workers[w].result.failure # NoFailure
     /\ workers[w].result.failure.stage = "complete"
     /\ workers[w].pos < Len(workers[w].group.tasks)

\* a group result with a stage failure has been recorded
FailureRecorded == \E i \in 1..Len(results) : results[i].failure # NoFailure

\* What the run does after a recorded failure: the groups already dequeued
\* go on to their end, and the response of a run that gets past Promise.all
\* is the stage error of the first recorded failure with every record made.
FailureEndsInError ==
  (FailureRecorded /\ pc = "returned") =>
     /\ outcome.status = "error"
     /\ outcome.stage = FirstFailure(results).stage
     /\ outcome.tasks = SortByIndex(FlatTasks(results))
     /\ outcome.iterations = Len(outcome.tasks)

\* C32: once a group has ended with a stage failure (its result is recorded),
\* no worker dequeues a further group.
C32_NoDequeueAfterFailure ==
  [][FailureRecorded => observed'.dequeues = observed.dequeues]_vars

\* a file or directory strictly inside a directory
Inside(dir, p) ==
  /\ p.abs = dir.abs
  /\ Len(p.segs) > Len(dir.segs)
  /\ SubSeq(p.segs, 1, Len(dir.segs)) = dir.segs
  /\ \A k \in 1..Len(p.segs) : p.segs[k] # Parent

\* the task source of the run, in the main working directory
MainTaskSource == resolveTaskSourcePath(wtSource, Cwd)

\* C33: every complete() call of a parallel run targets the copy of the task
\* source inside the worktree of the group being run; the task source of the
\* main working directory is never the target of a write, and no two groups
\* write the same file (their worktrees are different directories, none
\* inside another).
C33_CompleteTargetsWorktreeCopy ==
  /\ \A i \in 1..Len(wtCompletes) :
       LET c == wtCompletes[i] IN
       /\ c.target = c.record.copiedTaskSource
       /\ Inside(c.record.path, c.target)
       /\ c.target # MainTaskSource
       /\ c.written \subseteq {c.record.copiedTaskSource}
       /\ \A j \in 1..Len(wtCompletes) :
            wtCompletes[j].record.group # c.record.group =>
               /\ wtCompletes[j].target # c.target
               /\ wtCompletes[j].written \cap c.written = {}
  /\ \A i, j \in 1..Len(wtCreated) :
       /\ Inside(buildWorktreeRoot(Cwd), wtCreated[i].path)
       /\ i # j => /\ wtCreated[i].path # wtCreated[j].path
                   /\ ~Inside(wtCreated[i].path, wtCreated[j].path)

\* Two groups have written their copies of a task source that lies outside
\* the working directory.
C33_Witness ==
  /\ ~Inside(Cwd, MainTaskSource)
  /\ \E i, j \in 1..Len(wtCompletes) :
       /\ wtCompletes[i].record.group # wtCompletes[j].record.group
       /\ wtCompletes[i].written # {}
       /\ wtCompletes[j].written # {}

\* ------------------------------------------------------------- C34 .. C40
\* the call that follows call i, once the run has made it
FollowedBy(i, ops) ==
  IF i = Len(calls) THEN ~SeqDone ELSE calls[i + 1].op \in ops

\* C34: with branch-per-task the branch manager is driven in the order
\* prepare, then per iteration checkoutForTask, runner, finishTask, then
\* cleanup: prepare is the first call on the manager and precedes the first
\* next; each runner call directly follows the checkoutForTask of its task;
\* finishTask is called exactly once right after every runner call, returned
\* or thrown, and before complete() of that task; cleanup is the last call.
C34_BranchManagerOrder ==
  /\ ~seqOpts.branchPerTask => CallsOf({"prepare", "checkout", "finish", "cleanup"}) = {}
  /\ seqOpts.branchPerTask =>
       /\ CountOf("prepare") <= 1
       /\ CountOf("cleanup") <= 1
       /\ \A i \in CallsOf({"next", "checkout", "runner", "finish", "complete", "pr",
                            "cleanup"}) :
            \E k \in CallsOf({"prepare"}) : k < i /\ calls[k].status = "ok"
       /\ \A i \in CallsOf({"prepare"}) :
            calls[i].status = "ok" => FollowedBy(i, {"next"})
       /\ \A i \in CallsOf({"next"}) :
            calls[i].status = "ok" => FollowedBy(i, {"checkout"})
       /\ \A i \in CallsOf({"checkout"}) :
            /\ calls[i - 1].op = "next" /\ calls[i - 1].task = calls[i].task
            /\ calls[i].status = "ok" => FollowedBy(i, {"runner"})
       /\ \A i \in CallsOf({"runner"}) :
            /\ calls[i - 1].op = "checkout"
            /\ calls[i - 1].status = "ok"
            /\ calls[i - 1].task = calls[i].task
            /\ FollowedBy(i, {"finish"})
       /\ \A i \in CallsOf({"finish"}) :
            /\ calls[i - 1].op = "runner"
            /\ calls[i - 1].task = calls[i].task
            /\ FollowedBy(i, {"complete", "cleanup"})
       /\ \A i \in CallsOf({"complete"}) :
            /\ calls[i - 1].op = "finish"
            /\ calls[i - 1].status = "ok"
            /\ calls[i - 1].task = calls[i].task
            /\ calls[i - 2].status = "ok"
       /\ \A i \in CallsOf({"cleanup"}) : i = Len(calls) /\ SeqDone

\* finishTask was called after a runner call that threw, and again in a
\* later run of the loop after one that returned.
C34_Witness ==
  /\ seqOpts.branchPerTask
  /\ \E i, j \in CallsOf({"finish"}) :
       /\ i < j
       /\ calls[i - 1].status = "ok"
       /\ calls[j - 1].status = "thrown"
       /\ calls[Len(calls)].op = "cleanup"

\* the tasks of the calls of one operation that returned one of the given
\* statuses, in the order of the calls
RECURSIVE TasksOfCalls(_, _, _)
TasksOfCalls(log, op, statuses) ==
  IF log = << >> THEN << >>
  ELSE (IF Head(log).op = op /\ Head(log).status \in statuses
          THEN << Head(log).task >> ELSE << >>)
       \o TasksOfCalls(Tail(log), op, statuses)

IsPrefix(a, b) == Len(a) <= Len(b) /\ a = SubSeq(b, 1, Len(a))

AnyStatus == {"ok", "error", "dry-run", "thrown", "updated", "already-complete",
              "not-found", "empty"}

\* C35: one sequential run makes its calls one after the other; the runner
\* is called for the tasks in the order next handed them out, each once;
\* complete() is called for the tasks whose run succeeded, in that order; and
\* a next() after the first is made only when the complete() of the
\* iteration before has returned updated or already-complete and, with
\* createPr or draftPr, the PR creation that follows it has returned.
C35_SequentialLoop ==
  /\ LET handed == TasksOfCalls(calls, "next", {"ok"})
         run == TasksOfCalls(calls, "runner", AnyStatus)
         succeeded == TasksOfCalls(calls, "runner", {"ok"})
         marked == TasksOfCalls(calls, "complete", AnyStatus)
     IN /\ IsPrefix(run, handed)
        /\ Len(handed) <= Len(run) + 1
        /\ IsPrefix(marked, succeeded)
        /\ Len(succeeded) <= Len(marked) + 1
        /\ Len(handed) = iterations
  /\ \A i \in CallsOf({"next"}) :
       \/ CallsOf({"next", "runner", "complete", "pr"}) \cap 1..(i - 1) = {}
       \/ /\ ~PrWanted
          /\ calls[i - 1].op = "complete"
          /\ calls[i - 1].status \in {"updated", "already-complete"}
       \/ /\ PrWanted
          /\ calls[i - 1].op = "pr"
          /\ calls[i - 1].status = "ok"
          /\ calls[i - 2].op = "complete"
          /\ calls[i - 2].status \in {"updated", "already-complete"}
  /\ \A i \in CallsOf({"complete"}) :
       /\ calls[LastBefore(i, "runner")].task = calls[i].task
       /\ calls[LastBefore(i, "runner")].status = "ok"
       /\ \A k \in LastBefore(i, "runner")..i : calls[k].op \in {"runner", "finish", "complete"}

\* A second next() was made after the first task's complete() and PR
\* creation had returned, and the second task's runner call has returned.
C35_Witness ==
  /\ PrWanted
  /\ Len(TasksOfCalls(calls, "next", {"ok"})) = 2
  /\ Len(TasksOfCalls(calls, "runner", AnyStatus)) = 2
  /\ \E i \in CallsOf({"pr"}) : i < Len(calls) /\ calls[i + 1].op = "next"


\* ------------------------------------------------------------- C36, C38

Entry(i) == mbLog[i]

Is(i, cmd, result) == Entry(i).cmd = cmd /\ Entry(i).result = result

\* the entry before i belongs to the same branch and is the given command
Before(i, cmd, result) ==
  /\ i > 1
  /\ Entry(i - 1).branch = Entry(i).branch
  /\ Is(i - 1, cmd, result)

\* listConflicts after the agent call found conflicted files
ConflictsRemainAt(i) ==
  /\ Is(i, "diff", "conflicts")
  /\ i > 1
  /\ Entry(i - 1).cmd = "agent"

\* the resolver returned an error for the branch
ResolverFailed(b) ==
  \E i \in DOMAIN mbLog :
    Entry(i).branch = b /\ Is(i, "resolveMergeWithAi", "error")

\* C36: the resolver calls the agent at most once per branch; when conflicted
\* files remain after that call it runs `git merge --abort` and returns the
\* error `Merge conflict could not be resolved automatically`; when none
\* remain and a merge is in progress it runs `git commit --no-edit`; `branch
\* -d` is run for a branch only right after its merge succeeded or the
\* resolver returned ok; a branch for which the resolver returned an error is
\* in `failed`, every later branch is still attempted, and the call returns
\* `Merge conflicts remain in:` with exactly the failed branches.
C36_ResolverAndDirectMerge ==
  /\ \A b \in MergeBranches :
       Cardinality({ i \in DOMAIN mbLog : Entry(i).branch = b /\ Entry(i).cmd = "agent" }) <= 1
  /\ \A i \in DOMAIN mbLog :
       /\ ConflictsRemainAt(i) /\ i < Len(mbLog) =>
            /\ Entry(i + 1).cmd = "merge --abort"
            /\ Entry(i + 1).branch = Entry(i).branch
            /\ i + 2 <= Len(mbLog)
            /\ Is(i + 2, "resolveMergeWithAi", "error")
            /\ Entry(i + 2).message = CouldNotResolve
       /\ Is(i, "rev-parse MERGE_HEAD", "in-progress") /\ i < Len(mbLog) =>
            Entry(i + 1).cmd = "commit --no-edit"
       /\ Entry(i).cmd = "branch -d" =>
            \/ Before(i, "merge --no-edit", "ok")
            \/ Before(i, "resolveMergeWithAi", "ok")
       /\ (Is(i, "merge --no-edit", "ok") \/ Is(i, "resolveMergeWithAi", "ok")) /\ i < Len(mbLog) =>
            Entry(i + 1).cmd = "branch -d" /\ Entry(i + 1).branch = Entry(i).branch
  /\ SeqToSet(mbFailed) = { b \in MergeBranches : ResolverFailed(b) }
  /\ mbPc = "done" /\ mbFailed # << >> =>
       /\ mbResult = [status |-> "error", message |-> ConflictsRemain(mbFailed)]
       /\ \A k \in DOMAIN mbCompleted :
            \E i \in DOMAIN mbLog :
              Entry(i).branch = mbCompleted[k] /\ Entry(i).cmd = "merge --no-edit"

\* the first branch was given up after an agent call, the second one was
\* committed by the resolver and deleted
C36_Witness ==
  /\ mbPc = "done"
  /\ Len(mbCompleted) = 2
  /\ mbFailed = << mbCompleted[1] >>
  /\ \E i \in DOMAIN mbLog :
       /\ Entry(i).branch = mbCompleted[1]
       /\ Entry(i).cmd = "merge --abort"
       /\ ConflictsRemainAt(i - 1)
  /\ \E i \in DOMAIN mbLog :
       /\ Entry(i).branch = mbCompleted[2]
       /\ Is(i, "commit --no-edit", "ok")
  /\ Entry(Len(mbLog)).cmd = "branch -d"


\* the merge command of branch b succeeded
MergedCleanly(b) ==
  \E i \in DOMAIN mbLog : Entry(i).branch = b /\ Is(i, "merge --no-edit", "ok")

\* the merge of branch b stopped on conflicts, the agent was called on them
\* and the resolver returned ok
ResolvedByAgent(b) ==
  /\ \E i \in DOMAIN mbLog : Entry(i).branch = b /\ Is(i, "merge --no-edit", "conflict")
  /\ \E i \in DOMAIN mbLog : Entry(i).branch = b /\ Entry(i).cmd = "agent"
  /\ \E i \in DOMAIN mbLog : Entry(i).branch = b /\ Is(i, "resolveMergeWithAi", "ok")

\* C38: when the direct merge returns ok (and with it the run), every branch
\* was merged by `git merge --no-edit` or had its conflicts resolved by the
\* agent, and no conflicted file and no merge in progress is left; a branch
\* whose merge command failed for another reason never yields ok.
C38_OkOnlyWhenEveryBranchMerged ==
  mbPc = "done" /\ mbResult.status = "ok" =>
    /\ \A k \in DOMAIN mbCompleted :
         MergedCleanly(mbCompleted[k]) \/ ResolvedByAgent(mbCompleted[k])
    /\ ~mbRepo.conflicts
    /\ mbRepo.merging = None


\* ------------------------------------------------------------- C37

\* a complete() step takes the task it was called for, the first open one, off
\* the file's open tasks and leaves the others as they are: the list of open
\* tasks gets shorter with every iteration, which is what ends the loop
ClosesHandedTask ==
  seqPc = "complete" => OpenTasks(srcContents') = Tail(OpenTasks(srcContents))

\* C37: on a Markdown or YAML file (titles not necessarily distinct), with an
\* agent that always succeeds and no maxIterations, the sequential run comes
\* to an end with stopped = "no-tasks" and hands each open task to the agent
\* once, in source order: the task handed out is the first open one, every
\* complete() closes exactly that task, and the run returns only "no-tasks".
C37_FileRunTerminates ==
  /\ [](seqPc \in {"run", "complete"} =>
         /\ OpenTasks(srcContents) # << >>
         /\ seqTask = IF srcKind = "yaml" THEN OpenTasks(srcContents)[1].title
                      ELSE OpenTasks(srcContents)[1].text)
  /\ [](seqPc = "done" =>
         /\ seqOutcome.status = "ok"
         /\ seqOutcome.stopped = "no-tasks"
         /\ OpenTasks(srcContents) = << >>)
  /\ [][ClosesHandedTask]_vars


\* ------------------------------------------------------------- C39

\* the worker is running the agent or complete() for a task in its worktree
InWorktree(w) == workers[w].pc \in {"run", "complete"}

\* C39: the scheduler's final cleanup is not started, and does not run, while
\* a worker is still executing a task in one of the worktrees, also when
\* another worker's group raised an exception.
C39_NoCleanupUnderWorkers ==
  observed.finalCleanups > 0 => \A w \in Workers : ~InWorktree(w)


\* ------------------------------------------------------------- C40

WithStatus(records, status) == {i \in DOMAIN records : records[i].status = status}

\* C40: at every return of a sequential run with a structured response the
\* response holds one run record per iteration, the records are in the order
\* in which the tasks were attempted, `completed` is the number of records
\* with status "completed", and at most one record is "failed", the last one.
C40_RecordsMatchIterations ==
  seqPc = "done" /\ seqOutcome.status \in {"ok", "error"} =>
    /\ Len(seqOutcome.tasks) = seqOutcome.iterations
    /\ seqOutcome.iterations = iterations
    /\ [i \in DOMAIN seqOutcome.tasks |-> seqOutcome.tasks[i].task]
         = TasksOfCalls(calls, "next", {"ok"})
    /\ completedCount = Cardinality(WithStatus(seqOutcome.tasks, "completed"))
    /\ seqOutcome.status = "ok" => seqOutcome.completed = completedCount
    /\ WithStatus(seqOutcome.tasks, "failed") \subseteq {Len(seqOutcome.tasks)}
    /\ \A i \in DOMAIN seqOutcome.tasks : seqOutcome.tasks[i].status \in {"completed", "failed"}

\* a completed record followed by the failed one
C40_Witness ==
  /\ seqPc = "done"
  /\ seqOutcome.status = "error"
  /\ seqOutcome.stage = "agent"
  /\ Len(seqOutcome.tasks) = 2
  /\ seqOutcome.tasks[1].status = "completed"
  /\ seqOutcome.tasks[2].status = "failed"

====
